---------------------------- MODULE Spec2Model ----------------------------
(***************************************************************************)
(* A model of hyva-kartta: the zana tile codec (crates/zana/src/lib.rs),   *)
(* the ingest / partition / tile-building pipeline and the tile server     *)
(* (crates/baran/src/main.rs, server.rs) and the client's tile composer    *)
(* (crates/app/src/main.rs).                                               *)
(*                                                                         *)
(* Texts are sequences of byte codes.  Integers of the program are i64,    *)
(* i32 and u64; TLC's integers are 32 bits wide, so the signed columns are *)
(* modelled with the widths I64_BITS and I32_BITS, scaled down, and the    *)
(* arithmetic on them wraps at that width as the delta_encoding crate's    *)
(* wrapping_sub / wrapping_add do.                                         *)
(***************************************************************************)
EXTENDS Integers, Sequences, FiniteSets, TLC

\* ------------------------------------------------------------------ bounds

\* Width in bits of the model's i64 columns (ids, path node references).
I64_BITS == 5
\* Width in bits of the model's i32 columns (decimicro_lat, decimicro_lon).
I32_BITS == 4
\* Longest column drawn as an input of the delta coder.
MaxColumnLen == 3
\* Most nodes and most paths given to write_zana_data.
MaxNodes == 2
MaxPaths == 2
\* Largest id of an OSM node in the ingested file.
MaxNodeId == 3
\* The LZ4 frame encoder's block size, in stream items (64 KiB in lz4_flex).
BlockSize == 12

\* ------------------------------------------------------- generic helpers

RECURSIVE Pow2(_)
Pow2(n) == IF n = 0 THEN 1 ELSE 2 * Pow2(n - 1)

MinInt(bits) == -Pow2(bits - 1)
MaxInt(bits) == Pow2(bits - 1) - 1

\* Two's complement wrap of x to a signed integer of the given width.
Wrap(x, bits) == ((x + Pow2(bits - 1)) % Pow2(bits)) - Pow2(bits - 1)

Range(s) == {s[i] : i \in DOMAIN s}

\* All sequences over S of length lo..hi.
SeqsOf(S, lo, hi) == UNION {[1..n -> S] : n \in lo..hi}

RECURSIVE Concat(_)
Concat(ss) == IF ss = <<>> THEN <<>> ELSE Head(ss) \o Concat(Tail(ss))

\* The texts of the model: "a", "b", "ab" as byte codes.
Texts == {<<97>>, <<98>>, <<97, 98>>}

\* ------------------------------------------- StringTable (zana and baran)

\* HashMap<String, u64> as a function from a set of texts to ids.
EmptyMap == [t \in {} |-> 0]

\* The mutant of intern's id: next_idx without the + 1.
intern_id_len(map, s) ==
    IF s \in DOMAIN map THEN map[s] ELSE Cardinality(DOMAIN map)

\* zana StringTable::intern, the returned id.
intern_id(map, s) ==
    LET next_idx == Cardinality(DOMAIN map) + 1
    IN  IF s \in DOMAIN map THEN map[s] ELSE next_idx

\* zana StringTable::intern, the map afterwards.
intern_map(map, s) ==
    IF s \in DOMAIN map
    THEN map
    ELSE [t \in DOMAIN map \cup {s} |-> IF t = s THEN intern_id(map, s) ELSE map[t]]

\* zana StringTable::inverse.
inverse(map) ==
    [i \in {map[t] : t \in DOMAIN map} |-> CHOOSE t \in DOMAIN map : map[t] = i]

\* baran StringTable::intern on [string_map, new_inserts], the returned id.
ch_intern_id(st, s) ==
    LET next_idx == Cardinality(DOMAIN st.string_map) + 1
    IN  IF s \in DOMAIN st.string_map THEN st.string_map[s] ELSE next_idx

\* baran StringTable::intern, the table afterwards.
ch_intern_table(st, s) ==
    IF s \in DOMAIN st.string_map
    THEN st
    ELSE [string_map |->
             [t \in DOMAIN st.string_map \cup {s} |->
                 IF t = s THEN ch_intern_id(st, s) ELSE st.string_map[t]],
          new_inserts |->
             Append(st.new_inserts, [string |-> s, id |-> ch_intern_id(st, s)])]

ChEmptyTable == [string_map |-> EmptyMap, new_inserts |-> <<>>]

\* ------------------------------------------------------------ delta coder

\* The mutant of deltas: a difference outside the width is clamped to it.
deltas_saturating(s, bits) ==
    [i \in DOMAIN s |->
        LET d == s[i] - (IF i = 1 THEN 0 ELSE s[i - 1])
        IN  IF d > MaxInt(bits) THEN MaxInt(bits)
            ELSE IF d < MinInt(bits) THEN MinInt(bits) ELSE d]

\* delta_encoding's deltas(): the first value against 0, then each value
\* against its predecessor, by wrapping_sub.
deltas(s, bits) ==
    [i \in DOMAIN s |-> Wrap(s[i] - (IF i = 1 THEN 0 ELSE s[i - 1]), bits)]

RECURSIVE PrefixSum(_, _, _)
PrefixSum(d, acc, bits) ==
    IF d = <<>> THEN <<>>
    ELSE LET v == Wrap(acc + Head(d), bits)
         IN  <<v>> \o PrefixSum(Tail(d), v, bits)

\* The mutant of original: the running sum restarts at every element.
original_no_carry(d, bits) == [i \in DOMAIN d |-> Wrap(d[i], bits)]

\* delta_encoding's original(): the prefix sum, by wrapping_add.
original(d, bits) == PrefixSum(d, 0, bits)


\* ------------------------------------------- bincode (DefaultOptions) model
\* The serialized record is a stream of items, one per varint: a length or a u64
\* as it is, a signed integer zigzag-encoded, a text as its length and its bytes.

ZigZag(x) == IF x >= 0 THEN 2 * x ELSE -2 * x - 1
UnZigZag(u) == IF u % 2 = 0 THEN u \div 2 ELSE -((u + 1) \div 2)

ser_signed_seq(s) == <<Len(s)>> \o [i \in DOMAIN s |-> ZigZag(s[i])]
ser_unsigned_seq(s) == <<Len(s)>> \o s
ser_string(t) == <<Len(t)>> \o t
ser_seq_of_seqs(ss) == <<Len(ss)>> \o Concat([i \in DOMAIN ss |-> ser_signed_seq(ss[i])])

\* A HashMap is written in its iteration order: order lists its keys.
ser_map(map, order) ==
    <<Len(order)>> \o Concat([i \in DOMAIN order |-> ser_string(order[i]) \o <<map[order[i]]>>])

\* The iteration orders a HashMap with these keys can have.
MapOrders(map) ==
    {o \in [1..Cardinality(DOMAIN map) -> DOMAIN map] : Range(o) = DOMAIN map}

\* serialize_into(f, &ZanaDenseData {nodes, paths, string_table}).
serialize(data, order) ==
       ser_signed_seq(data.nodes.dids)
    \o ser_signed_seq(data.nodes.dlats)
    \o ser_signed_seq(data.nodes.dlons)
    \o ser_signed_seq(data.paths.dids)
    \o ser_seq_of_seqs(data.paths.dnodes)
    \o ser_unsigned_seq(data.paths.tags)
    \o ser_map(data.string_table, order)

ReadFail == [ok |-> FALSE, val |-> <<>>, next |-> 0]

\* A length and that many items, from position pos of b.
read_items(b, pos) ==
    IF pos > Len(b) THEN ReadFail
    ELSE IF pos + b[pos] > Len(b) THEN ReadFail
    ELSE [ok |-> TRUE, val |-> SubSeq(b, pos + 1, pos + b[pos]), next |-> pos + b[pos] + 1]

read_signed_seq(b, pos) ==
    LET r == read_items(b, pos)
    IN  IF r.ok THEN [r EXCEPT !.val = [i \in DOMAIN r.val |-> UnZigZag(r.val[i])]] ELSE r

RECURSIVE read_n_seqs(_, _, _)
read_n_seqs(b, pos, n) ==
    IF n = 0 THEN [ok |-> TRUE, val |-> <<>>, next |-> pos]
    ELSE LET r == read_signed_seq(b, pos)
         IN  IF ~r.ok THEN ReadFail
             ELSE LET rest == read_n_seqs(b, r.next, n - 1)
                  IN  IF ~rest.ok THEN ReadFail
                      ELSE [ok |-> TRUE, val |-> <<r.val>> \o rest.val, next |-> rest.next]

read_seq_of_seqs(b, pos) ==
    IF pos > Len(b) THEN ReadFail ELSE read_n_seqs(b, pos + 1, b[pos])

\* n map entries (text, id); a later entry with the same text replaces an earlier one.
RECURSIVE read_n_entries(_, _, _, _)
read_n_entries(b, pos, n, map) ==
    IF n = 0 THEN [ok |-> TRUE, val |-> map, next |-> pos]
    ELSE LET k == read_items(b, pos)
         IN  IF ~k.ok \/ k.next > Len(b) THEN ReadFail
             ELSE read_n_entries(b, k.next + 1, n - 1,
                     [t \in DOMAIN map \cup {k.val} |->
                         IF t = k.val THEN b[k.next] ELSE map[t]])

read_map(b, pos) ==
    IF pos > Len(b) THEN ReadFail ELSE read_n_entries(b, pos + 1, b[pos], EmptyMap)

\* deserialize_from(reader): the record, or a failure when the stream ends early.
deserialize(b) ==
    LET ndids == read_signed_seq(b, 1)
        ndlats == read_signed_seq(b, ndids.next)
        ndlons == read_signed_seq(b, ndlats.next)
        pdids == read_signed_seq(b, ndlons.next)
        pdnodes == read_seq_of_seqs(b, pdids.next)
        ptags == read_items(b, pdnodes.next)
        strs == read_map(b, ptags.next)
    IN  IF ~ndids.ok THEN [ok |-> FALSE]
        ELSE IF ~ndlats.ok THEN [ok |-> FALSE]
        ELSE IF ~ndlons.ok THEN [ok |-> FALSE]
        ELSE IF ~pdids.ok THEN [ok |-> FALSE]
        ELSE IF ~pdnodes.ok THEN [ok |-> FALSE]
        ELSE IF ~ptags.ok THEN [ok |-> FALSE]
        ELSE IF ~strs.ok THEN [ok |-> FALSE]
        ELSE [ok |-> TRUE,
              data |-> [nodes |-> [dids |-> ndids.val, dlats |-> ndlats.val,
                                   dlons |-> ndlons.val],
                        paths |-> [dids |-> pdids.val, dnodes |-> pdnodes.val,
                                   tags |-> ptags.val],
                        string_table |-> strs.val]]

\* --------------------------------------------------- LZ4 frame (lz4_flex)
\* A stream of frame parts: the frame header, data blocks, the end mark.

FrameHeader == [kind |-> "header", data |-> <<>>]
EndMark == [kind |-> "end", data |-> <<>>]
Block(d) == [kind |-> "block", data |-> d]

\* The blocks the encoder cuts its input into.
RECURSIVE Chunks(_)
Chunks(data) ==
    IF Len(data) = 0 THEN <<>>
    ELSE IF Len(data) <= BlockSize THEN <<Block(data)>>
    ELSE <<Block(SubSeq(data, 1, BlockSize))>>
             \o Chunks(SubSeq(data, BlockSize + 1, Len(data)))

\* What FrameEncoder::write has handed to its sink once all of data went through
\* write(): the header (on the first write) and every block that filled up and
\* had to make room for more input.  The last block is still in the encoder.
frame_written(data) ==
    IF Len(data) = 0 THEN <<>>
    ELSE <<FrameHeader>> \o SubSeq(Chunks(data), 1, Len(Chunks(data)) - 1)

\* What FrameEncoder::finish adds: the block still buffered, then the end mark.
frame_finish(data) ==
    (IF Len(data) = 0 THEN <<FrameHeader>> ELSE <<Chunks(data)[Len(Chunks(data))]>>)
        \o <<EndMark>>

\* FrameDecoder over a stream of parts: the bytes it can give its reader, and
\* whether it reached the end mark.
RECURSIVE frame_blocks(_)
frame_blocks(parts) ==
    IF parts = <<>> THEN [data |-> <<>>, finished |-> FALSE]
    ELSE IF Head(parts).kind = "end" THEN [data |-> <<>>, finished |-> TRUE]
    ELSE LET rest == frame_blocks(Tail(parts))
         IN  [data |-> Head(parts).data \o rest.data, finished |-> rest.finished]

frame_decode(parts) ==
    IF parts = <<>> \/ Head(parts).kind # "header"
    THEN [ok |-> FALSE, data |-> <<>>, finished |-> FALSE]
    ELSE [ok |-> TRUE, data |-> frame_blocks(Tail(parts)).data,
          finished |-> frame_blocks(Tail(parts)).finished]

\* ------------------------------------------------------------ tile codec

\* A sequence of texts interned one after the other: the ids and the table.
RECURSIVE intern_all(_, _)
intern_all(map, texts) ==
    IF texts = <<>> THEN [ids |-> <<>>, map |-> map]
    ELSE LET rest == intern_all(intern_map(map, Head(texts)), Tail(texts))
         IN  [ids |-> <<intern_id(map, Head(texts))>> \o rest.ids, map |-> rest.map]

\* The mutant of tag_texts: the key's text is looked up for the value too.
tag_texts_key_twice(w, lookup_table) ==
    Concat([i \in DOMAIN w.tags |->
               <<lookup_table[w.tags[i][1]], lookup_table[w.tags[i][1]]>>])

\* The texts of one path's tags through the lookup table: key, value, key, ...
tag_texts(w, lookup_table) ==
    Concat([i \in DOMAIN w.tags |->
               <<lookup_table[w.tags[i][1]], lookup_table[w.tags[i][2]]>>])

\* for w in paths { for (key, value) in w.tags { push intern, push intern } push 0 }
RECURSIVE push_tags(_, _, _, _)
push_tags(paths, lookup_table, map, tags) ==
    IF paths = <<>> THEN [tags |-> tags, map |-> map]
    ELSE LET r == intern_all(map, tag_texts(Head(paths), lookup_table))
         IN  push_tags(Tail(paths), lookup_table, r.map, tags \o r.ids \o <<0>>)

\* The mutant of pop_last: the separator after the last path stays.
keep_last(tags) == tags

\* "remove last 0": if !tags.is_empty() { tags.pop() }
pop_last(tags) == IF tags = <<>> THEN tags ELSE SubSeq(tags, 1, Len(tags) - 1)

\* Whether every tag id of the paths is a key of the lookup table
\* (lookup_table[key] panics otherwise).
tags_resolve(paths, lookup_table) ==
    \A i \in DOMAIN paths : \A j \in DOMAIN paths[i].tags :
        /\ paths[i].tags[j][1] \in DOMAIN lookup_table
        /\ paths[i].tags[j][2] \in DOMAIN lookup_table

\* write_zana_data up to the record it serializes.
zana_dense_data(nodes, paths, lookup_table) ==
    LET pushed == push_tags(paths, lookup_table, EmptyMap, <<>>)
    IN  [nodes |->
            [dids |-> deltas([i \in DOMAIN nodes |-> nodes[i].id], I64_BITS),
             dlats |-> deltas([i \in DOMAIN nodes |-> nodes[i].coords.decimicro_lat],
                              I32_BITS),
             dlons |-> deltas([i \in DOMAIN nodes |-> nodes[i].coords.decimicro_lon],
                              I32_BITS)],
         paths |->
            [dids |-> <<>>,
             dnodes |-> [i \in DOMAIN paths |-> deltas(paths[i].nodes, I64_BITS)],
             tags |-> pop_last(pushed.tags)],
         string_table |-> pushed.map]

\* write_zana_data: the bytes its sink holds when it returns.  The frame encoder
\* is an auto_finish one, so the frame is closed when it is dropped.
write_zana_data(nodes, paths, lookup_table, order) ==
    LET bytes == serialize(zana_dense_data(nodes, paths, lookup_table), order)
    IN  frame_written(bytes) \o frame_finish(bytes)

Min2(a, b) == IF a <= b THEN a ELSE b

\* tags.split(|t| *t == 0): the groups between the zeros, one more than zeros.
RECURSIVE split_on_zero(_, _)
split_on_zero(tags, group) ==
    IF tags = <<>> THEN <<group>>
    ELSE IF Head(tags) = 0 THEN <<group>> \o split_on_zero(Tail(tags), <<>>)
    ELSE split_on_zero(Tail(tags), Append(group, Head(tags)))

\* tags.chunks_exact(2).map(|c| (c[0], c[1])): an odd last item is dropped.
chunks_exact_2(g) == [i \in 1..(Len(g) \div 2) |-> <<g[2 * i - 1], g[2 * i]>>]

\* read_zana_data after the record is deserialized: nodes first, then paths.
undensify(data) ==
    LET ids == original(data.nodes.dids, I64_BITS)
        lats == original(data.nodes.dlats, I32_BITS)
        lons == original(data.nodes.dlons, I32_BITS)
        n_nodes == Min2(Len(ids), Min2(Len(lats), Len(lons)))
        path_tags == split_on_zero(data.paths.tags, <<>>)
        n_paths == Min2(Len(data.paths.dnodes), Len(path_tags))
    IN  [i \in 1..n_nodes |->
            [kind |-> "Node", id |-> ids[i],
             coords |-> [decimicro_lat |-> lats[i], decimicro_lon |-> lons[i]],
             nodes |-> <<>>, tags |-> <<>>]]
        \o
        [i \in 1..n_paths |->
            [kind |-> "Path", id |-> 0,
             coords |-> [decimicro_lat |-> 0, decimicro_lon |-> 0],
             nodes |-> original(data.paths.dnodes[i], I64_BITS),
             tags |-> chunks_exact_2(path_tags[i])]]

\* read_zana_data: the string table and the objects, or a panic (the unwrap of
\* a failed deserialize_from).
read_zana_data(r) ==
    LET fd == frame_decode(r)
        de == deserialize(fd.data)
    IN  IF ~fd.ok THEN [panic |-> TRUE, string_table |-> EmptyMap, objects |-> <<>>]
        ELSE IF ~de.ok THEN [panic |-> TRUE, string_table |-> EmptyMap, objects |-> <<>>]
        ELSE [panic |-> FALSE, string_table |-> de.data.string_table,
              objects |-> undensify(de.data)]

\* --------------------------------------------------------------- H3 cells
\* A cell of resolution r >= 3 is its resolution 3 ancestor followed by one
\* digit for each finer resolution up to r.

\* Resolution::Three, the resolution of the cell3 column.
Three == 3
\* const MIN_RESOLUTION: Resolution = Resolution::Twelve
MIN_RESOLUTION == 12
\* const MAX_NODES_PER_CELL, scaled down from 100_000.
MAX_NODES_PER_CELL == 2

\* The resolution 3 cells of the model; the second is a pentagon.
Cells3 == {<<1>>, <<2>>}
PentagonRoots == {2}
ChildDigits == 0..6

resolution(c) == Three + Len(c) - 1

\* cell.parent(res), for res between 3 and the cell's resolution.
parent(c, res) == SubSeq(c, 1, res - Three + 1)

\* A pentagon's descendants through digit 0 are the pentagons.
is_pentagon(c) == c[1] \in PentagonRoots /\ \A i \in 2..Len(c) : c[i] = 0

\* cell.children(cell.resolution().succ()): seven cells, six for a pentagon.
children(c) ==
    {Append(c, d) : d \in ChildDigits \ (IF is_pentagon(c) THEN {1} ELSE {})}

\* Whether a is b or an ancestor of b.
is_ancestor_or_self(a, b) == Len(a) <= Len(b) /\ SubSeq(b, 1, Len(a)) = a

\* The resolution 12 cell with the given root, all digits 0 except one.
Leaf(root, pos, digit) ==
    [i \in 1..(MIN_RESOLUTION - Three + 1) |->
        IF i = 1 THEN root ELSE IF i = pos THEN digit ELSE 0]

\* ------------------------------------------------- staging and its queries
\* The relations nodes, paths and strings of the ClickHouse staging store:
\* nodes and paths as sequences of rows in insertion order, strings as a set.

\* insert_node's row for an OSM node whose position lies in cell12.
ch_node(n, tag_ids) ==
    [id |-> n.id, decimicro_lat |-> n.decimicro_lat, decimicro_lon |-> n.decimicro_lon,
     cell12 |-> n.cell12, cell3 |-> parent(n.cell12, Three), tags |-> tag_ids]

\* select distinct cell3 from nodes
distinct_cell3(nodes) == {nodes[i].cell3 : i \in DOMAIN nodes}

\* The mutant of rows_inside: cell3 is compared with the cell itself.
rows_inside_cell3_is_cell(nodes, cell) ==
    {i \in DOMAIN nodes :
        /\ parent(nodes[i].cell12, resolution(cell)) = cell
        /\ nodes[i].cell3 = cell}

\* WHERE h3ToParent(cell12, res) == cell AND cell3 == cell.parent(3)
rows_inside(nodes, cell) ==
    {i \in DOMAIN nodes :
        /\ parent(nodes[i].cell12, resolution(cell)) = cell
        /\ nodes[i].cell3 = parent(cell, Three)}

\* query_nodes_count: select count() from nodes WHERE ...
query_nodes_count(nodes, cell) == Cardinality(rows_inside(nodes, cell))

\* nodes_inside: SELECT id as node_ids FROM nodes WHERE ...
nodes_inside(nodes, cell) == {nodes[i].id : i \in rows_inside(nodes, cell)}

\* SELECT id from paths WHERE arrayJoin(nodes) in (select node_ids from nodes_inside)
paths_inside(nodes, paths, cell) ==
    {paths[i].id : i \in {j \in DOMAIN paths :
                             Range(paths[j].nodes) \cap nodes_inside(nodes, cell) # {}}}

\* The mutant of path_rows: the WHERE clause is lost and every row is returned.
path_rows_all(nodes, paths, cell) == DOMAIN paths

\* The rows of the first query: SELECT ?fields FROM paths WHERE id in (...).
path_rows(nodes, paths, cell) ==
    {i \in DOMAIN paths : paths[i].id \in paths_inside(nodes, paths, cell)}

\* The mutant of node_rows: only the nodes inside the cell are fetched.
node_rows_inside_only(nodes, paths, cell) == rows_inside(nodes, cell)

\* The rows of the second query: SELECT ?fields from nodes where id IN (SELECT
\* arrayJoin(nodes) FROM paths WHERE id IN (SELECT id FROM paths_inside)).
node_rows(nodes, paths, cell) ==
    {i \in DOMAIN nodes :
        nodes[i].id \in UNION {Range(paths[j].nodes) : j \in path_rows(nodes, paths, cell)}}

\* The orders in which a query without ORDER BY can return the rows rs.
RowOrders(rs) == {o \in [1..Cardinality(rs) -> rs] : Range(o) = rs}

\* The orders ORDER BY id allows: ascending ids, equal ids in any order.
RowOrdersById(nodes, rs) ==
    {o \in RowOrders(rs) :
        \A a, b \in DOMAIN o : a < b => nodes[o[a]].id <= nodes[o[b]].id}

\* StringTable::fetch(client).string_map inverted: id -> text.  Two rows with one
\* id leave one of their texts.
ch_reverse_table(strings) ==
    [i \in {r.id : r \in strings} |-> (CHOOSE r \in strings : r.id = i).string]

\* --------------------------------------------------- zana_file_from_ch_tile

\* A sequence of texts interned into the baran table: the ids and the table.
RECURSIVE ch_intern_all(_, _)
ch_intern_all(st, texts) ==
    IF texts = <<>> THEN [ids |-> <<>>, st |-> st]
    ELSE LET rest == ch_intern_all(ch_intern_table(st, Head(texts)), Tail(texts))
         IN  [ids |-> <<ch_intern_id(st, Head(texts))>> \o rest.ids, st |-> rest.st]

\* for w in paths.iter() { for (k, v) in w.tags.iter() { push, push } push 0 }
RECURSIVE ch_push_tags(_, _, _, _)
ch_push_tags(paths, reverse_table, st, tags) ==
    IF paths = <<>> THEN [tags |-> tags, st |-> st]
    ELSE LET w == Head(paths)
             texts == Concat([i \in DOMAIN w.tags |->
                                <<reverse_table[w.tags[i][1]], reverse_table[w.tags[i][2]]>>])
             r == ch_intern_all(st, texts)
         IN  ch_push_tags(Tail(paths), reverse_table, r.st, tags \o r.ids \o <<0>>)

\* "remove last 0": if tags.len() > 0 { tags.pop() }
ch_pop_last(tags) == IF Len(tags) > 0 THEN SubSeq(tags, 1, Len(tags) - 1) ELSE tags

\* The mutant of ch_dense_data: the table fetched from staging is stored in
\* place of the tile's own.
ch_dense_data_fetched_table(nodes, paths, reverse_table) ==
    LET pushed == ch_push_tags(paths, reverse_table, ChEmptyTable, <<>>)
    IN  [nodes |->
            [dids |-> deltas([i \in DOMAIN nodes |-> nodes[i].id], I64_BITS),
             dlats |-> deltas([i \in DOMAIN nodes |-> nodes[i].decimicro_lat], I32_BITS),
             dlons |-> deltas([i \in DOMAIN nodes |-> nodes[i].decimicro_lon], I32_BITS)],
         paths |->
            [dids |-> deltas([i \in DOMAIN paths |-> paths[i].id], I64_BITS),
             dnodes |-> [i \in DOMAIN paths |-> deltas(paths[i].nodes, I64_BITS)],
             tags |-> ch_pop_last(pushed.tags)],
         string_table |-> [t \in {reverse_table[k] : k \in DOMAIN reverse_table} |->
                              CHOOSE k \in DOMAIN reverse_table : reverse_table[k] = t]]

\* The record zana_file_from_ch_tile serializes, from the rows it queried.
ch_dense_data(nodes, paths, reverse_table) ==
    LET pushed == ch_push_tags(paths, reverse_table, ChEmptyTable, <<>>)
    IN  [nodes |->
            [dids |-> deltas([i \in DOMAIN nodes |-> nodes[i].id], I64_BITS),
             dlats |-> deltas([i \in DOMAIN nodes |-> nodes[i].decimicro_lat], I32_BITS),
             dlons |-> deltas([i \in DOMAIN nodes |-> nodes[i].decimicro_lon], I32_BITS)],
         paths |->
            [dids |-> deltas([i \in DOMAIN paths |-> paths[i].id], I64_BITS),
             dnodes |-> [i \in DOMAIN paths |-> deltas(paths[i].nodes, I64_BITS)],
             tags |-> ch_pop_last(pushed.tags)],
         string_table |-> pushed.st.string_map]

\* The mutant of split_decision: >= where the code has >.
split_decision_ge(node_count, cell) ==
    node_count >= MAX_NODES_PER_CELL /\ resolution(cell) < MIN_RESOLUTION

\* if node_count > MAX_NODES_PER_CELL && cell.resolution() < MIN_RESOLUTION
split_decision(node_count, cell) ==
    node_count > MAX_NODES_PER_CELL /\ resolution(cell) < MIN_RESOLUTION

\* ------------------------------------------------------------- variables

VARIABLES
    \* StringTable under a sequence of intern calls
    table,          \* zana StringTable.map
    ch_table,       \* baran StringTable: [string_map, new_inserts]
    intern_call,    \* the last intern call: [impl, s, id]
    \* one column through the delta coder
    d_bits,         \* the column's integer width
    d_col,          \* the column given to deltas()
    d_stored,       \* the deltas stored in the tile
    d_decoded,      \* the column original() gives back
    d_pc,           \* "idle" | "input" | "encoded" | "decoded"
    \* write_zana_data and read_zana_data (tests::smoke_test_read_write)
    wz_nodes,       \* Vec<ZanaNode> given to write_zana_data
    wz_paths,       \* Vec<ZanaPath> given to write_zana_data
    wz_lookup,      \* the lookup table, id -> text
    zan_bytes,      \* the sink's contents: the stream of frame parts
    rz_result,      \* what read_zana_data returned
    codec_pc,       \* "idle" | "input" | "written" | "write_panic" | "read"
    \* staging (ClickHouse)
    nodes_rel,      \* the rows of nodes, in insertion order
    paths_rel,      \* the rows of paths, in insertion order
    strings_rel,    \* the rows of strings
    \* INGEST (ingest_into_clickhouse)
    ingest_pc,      \* "idle" | "running" | "end_nodes" | "end_paths" | "end_strings" | "done"
    string_map,     \* ingest's StringTable: [string_map, new_inserts]
    node_inserter,  \* rows written to the nodes insert and not yet ended
    path_inserter,  \* rows written to the paths insert and not yet ended
    \* DUMP (dump_all_ch_to_zana_files, zana_file_from_ch_tile)
    dump_pc,        \* "idle" | "loop" | "writing" | "done" | "panic"
    cells_to_process, \* the work stack
    tb,             \* the tile being written: [cell, pending]
    accepted,       \* the cells handed to zana_file_from_ch_tile
    split_cells,    \* the cells replaced by their children
    discarded,      \* the cells dropped for a node count of 0
    built,          \* cell -> the record zana_file_from_ch_tile serialized for it
    \* the tile store
    h3,             \* file name (the cell) -> the file's contents
    \* the tile server (server.rs)
    response,       \* the last response a handler produced
    \* the client (App)
    downloaded_cells, \* App.downloaded_cells, in the order of the listing
    view_center,    \* App.view_center, on one axis
    html_size,      \* App.html_size, the width
    body_size,      \* what get_body_size() returns, the width
    pan_start,      \* App.pan_start: none, or [x, id, center]
    drawn_cells,    \* App.drawn_cells: cell -> "Waiting" | "Done"
    animation_frame, \* whether the requested animation frame is still to fire
    mailbox,        \* the messages sent to the component and not yet handled
    in_flight,      \* the render tasks spawned and not yet completed: their cells
    read_pending,   \* whether a load_cell_names_from_indexeddb task is running
    download_pending, \* whether download_files is running
    \* the rasterizer (draw_tile)
    pixmap,         \* what the last draw_tile call did: [state, data, strokes]
    \* the viewport filter
    filter_call     \* a call of the viewport filter: [pc, cells, bbox, result]

internVars == <<table, ch_table, intern_call>>
deltaVars == <<d_bits, d_col, d_stored, d_decoded, d_pc>>

codecVars == <<wz_nodes, wz_paths, wz_lookup, zan_bytes, rz_result, codec_pc>>

stagingVars == <<nodes_rel, paths_rel, strings_rel>>
ingestVars == <<ingest_pc, string_map, node_inserter, path_inserter>>
dumpVars == <<dump_pc, cells_to_process, tb, accepted, split_cells, discarded, built>>
pipelineVars == <<stagingVars, ingestVars, dumpVars, h3>>
serverVars == <<response>>
drawVars == <<pixmap>>
filterVars == <<filter_call>>
clientVars ==
    <<downloaded_cells, view_center, html_size, body_size, pan_start, drawn_cells,
      animation_frame, mailbox, in_flight, read_pending, download_pending>>

NoCall == [impl |-> "none", s |-> <<>>, id |-> 0]

NoDraw == [state |-> "none", data |-> <<>>, strokes |-> <<>>]
DrawIdle == pixmap = NoDraw

NoFilterCall ==
    [pc |-> "none", cells |-> <<>>, bbox |-> [left |-> 0, right |-> 0], result |-> <<>>]
FilterIdle == filter_call = NoFilterCall

InternIdle == table = EmptyMap /\ ch_table = ChEmptyTable /\ intern_call = NoCall
DeltaIdle ==
    d_bits = 0 /\ d_col = <<>> /\ d_stored = <<>> /\ d_decoded = <<>> /\ d_pc = "idle"

\* -------------------------------------------------- StringTable: actions

\* t.intern(s) on the zana table (lib.rs tests::smoke_test_string_table).
InternCall ==
    \E s \in Texts :
        /\ table' = intern_map(table, s)
        /\ intern_call' = [impl |-> "zana", s |-> s, id |-> intern_id(table, s)]
        /\ UNCHANGED ch_table

\* string_table.intern(s) on the baran table (insert_node, insert_path).
ChInternCall ==
    \E s \in Texts :
        /\ ch_table' = ch_intern_table(ch_table, s)
        /\ intern_call' = [impl |-> "baran", s |-> s, id |-> ch_intern_id(ch_table, s)]
        /\ UNCHANGED table

\* --------------------------------------------------- delta coder: actions

\* Values drawn for a column: the extremes of the width and the values between.
\* The decimicro bounds of a latitude (900_000_000) and of a longitude
\* (1_800_000_000), in proportion to the model's i32 width.
MaxDecimicroLat == (419 * Pow2(I32_BITS - 1)) \div 1000
MaxDecimicroLon == (838 * Pow2(I32_BITS - 1)) \div 1000

Samples(bits) ==
    {MinInt(bits), -MaxDecimicroLon, -MaxDecimicroLat, -1, 0, 5,
     MaxDecimicroLat, MaxDecimicroLon, MaxInt(bits)}

\* node_ids.into_iter().deltas().collect()
DeltaEncode ==
    /\ d_pc = "input"
    /\ d_stored' = deltas(d_col, d_bits)
    /\ d_pc' = "encoded"
    /\ UNCHANGED <<d_bits, d_col, d_decoded>>

\* nodes.dids.iter().copied().original()
DeltaDecode ==
    /\ d_pc = "encoded"
    /\ d_decoded' = original(d_stored, d_bits)
    /\ d_pc' = "decoded"
    /\ UNCHANGED <<d_bits, d_col, d_stored>>

\* ---------------------------------------------------- tile codec: actions

NoResult == [panic |-> FALSE, string_table |-> EmptyMap, objects |-> <<>>]

CodecIdle ==
    /\ wz_nodes = <<>> /\ wz_paths = <<>> /\ wz_lookup = <<>>
    /\ zan_bytes = <<>> /\ rz_result = NoResult /\ codec_pc = "idle"

ZNode(id, lat, lon) ==
    [id |-> id, coords |-> [decimicro_lat |-> lat, decimicro_lon |-> lon]]
ZPath(nodes, tags) == [nodes |-> nodes, tags |-> tags]

NodeSamples ==
    {ZNode(1, 6, 6), ZNode(2, 7, 6), ZNode(MaxInt(I64_BITS), MinInt(I32_BITS), MaxInt(I32_BITS))}
PathSamples ==
    {ZPath(<<1, 2>>, <<<<1, 2>>>>),
     ZPath(<<MaxInt(I64_BITS), MinInt(I64_BITS), 7>>, <<>>),
     ZPath(<<2>>, <<<<3, 1>>, <<1, 2>>>>)}
\* id -> text: a full table, one with two ids for one text, one that lacks id 3.
LookupTables ==
    {<<<<97>>, <<98>>, <<97, 98>>>>, <<<<97>>, <<98>>, <<97>>>>, <<<<97>>, <<98>>>>}

\* write_zana_data(nodes, paths, &lookup_table, &mut output)
WriteZana ==
    /\ codec_pc = "input"
    /\ tags_resolve(wz_paths, wz_lookup)
    /\ \E order \in MapOrders(zana_dense_data(wz_nodes, wz_paths, wz_lookup).string_table) :
          zan_bytes' = write_zana_data(wz_nodes, wz_paths, wz_lookup, order)
    /\ codec_pc' = "written"
    /\ UNCHANGED <<wz_nodes, wz_paths, wz_lookup, rz_result>>

\* write_zana_data when lookup_table[key] has no such key: the index panics
\* before the sink is touched.
WriteZanaPanic ==
    /\ codec_pc = "input"
    /\ ~tags_resolve(wz_paths, wz_lookup)
    /\ codec_pc' = "write_panic"
    /\ UNCHANGED <<wz_nodes, wz_paths, wz_lookup, zan_bytes, rz_result>>

\* The three tag keys draw_tile gives a style to ("building", "power" and
\* "highway"), as texts of the model's alphabet.
building == <<97, 98>>
power == <<98>>
highway == <<97>>

\* find_tag: the id of a text in the tile's string table, 0 when absent.
find_tag(string_table, s) == IF s \in DOMAIN string_table THEN string_table[s] ELSE 0

\* has_tag: some tag of the path has this key.
has_tag(p, tag) == \E i \in DOMAIN p.tags : p.tags[i][1] = tag

\* The node id -> coordinates map draw_tile collects from the Node objects (a
\* later node with the same id replaces an earlier one).
node_id_hashmap(zana_data) ==
    LET idx == {i \in DOMAIN zana_data : zana_data[i].kind = "Node"}
        last(id) == CHOOSE i \in idx :
            /\ zana_data[i].id = id
            /\ \A k \in idx : zana_data[k].id = id => k <= i
    IN  [id \in {zana_data[i].id : i \in idx} |-> zana_data[last(id)].coords]

\* draw_path: the references found in the map, in path order; the first is the
\* move_to when there are two or more, the rest (&node_coords[1..], a panic on
\* an empty vector) are line_to; a builder with fewer than two points strokes
\* nothing.
draw_path(p, map) ==
    LET found == SelectSeq(p.nodes, LAMBDA n : n \in DOMAIN map)
        node_coords == [i \in DOMAIN found |-> map[found[i]]]
    IN  [panic |-> Len(node_coords) = 0,
         stroke |-> IF Len(node_coords) > 1 THEN <<node_coords>> ELSE <<>>]

\* The style draw_tile picks for a path, "none" when it has none of the keys.
style_of(p, string_table) ==
    IF has_tag(p, find_tag(string_table, building)) THEN "building"
    ELSE IF has_tag(p, find_tag(string_table, power)) THEN "power"
    ELSE IF has_tag(p, find_tag(string_table, highway)) THEN "highway"
    ELSE "none"

\* The loop of draw_tile over the objects from the i-th on: strokes so far, and
\* whether a draw_path panicked (which ends the call).
RECURSIVE draw_objects(_, _, _, _, _)
draw_objects(zana_data, i, string_table, map, strokes) ==
    IF i > Len(zana_data) THEN [state |-> "done", strokes |-> strokes]
    ELSE IF zana_data[i].kind = "Node" \/ style_of(zana_data[i], string_table) = "none"
    THEN draw_objects(zana_data, i + 1, string_table, map, strokes)
    ELSE LET d == draw_path(zana_data[i], map)
         IN  IF d.panic THEN [state |-> "panic", strokes |-> strokes]
             ELSE draw_objects(zana_data, i + 1, string_table, map,
                               strokes \o d.stroke)

\* draw_tile: decode (a panic when read_zana_data panics), then draw every
\* styled path.
draw_tile(data) ==
    LET r == read_zana_data(data)
    IN  IF r.panic THEN [state |-> "panic", strokes |-> <<>>]
        ELSE draw_objects(r.objects, 1, r.string_table,
                          node_id_hashmap(r.objects), <<>>)

\* A caller hands draw_tile the bytes of a tile, whole or cut short.
DrawTile ==
    /\ codec_pc = "written"
    /\ pixmap.state = "none"
    /\ \E k \in 0..Len(zan_bytes) :
        LET data == SubSeq(zan_bytes, 1, k)
            d == draw_tile(data)
        IN  pixmap' = [state |-> d.state, data |-> data, strokes |-> d.strokes]
    /\ UNCHANGED codecVars

\* read_zana_data(Cursor::new(output))
ReadZana ==
    /\ codec_pc = "written"
    /\ rz_result' = read_zana_data(zan_bytes)
    /\ codec_pc' = "read"
    /\ UNCHANGED <<wz_nodes, wz_paths, wz_lookup, zan_bytes>>

\* ------------------------------------------------------- INGEST: actions

NoFiles == [c \in {} |-> <<>>]
NoTile == [cell |-> <<>>, pending |-> <<>>]

PipelineIdle ==
    /\ nodes_rel = <<>> /\ paths_rel = <<>> /\ strings_rel = {}
    /\ ingest_pc = "idle" /\ string_map = ChEmptyTable
    /\ node_inserter = <<>> /\ path_inserter = <<>>
    /\ dump_pc = "idle" /\ cells_to_process = <<>> /\ tb = NoTile
    /\ accepted = {} /\ split_cells = {} /\ discarded = {} /\ built = NoFiles
    /\ h3 = NoFiles

\* Where the nodes of the file can lie: two sibling resolution 12 cells, a cell
\* that leaves their ancestors at resolution 6, and a cell under the pentagon.
Places ==
    {[decimicro_lat |-> 6, decimicro_lon |-> 6, cell12 |-> Leaf(1, 0, 0)],
     [decimicro_lat |-> 7, decimicro_lon |-> 6, cell12 |-> Leaf(1, 10, 3)],
     [decimicro_lat |-> MaxInt(I32_BITS), decimicro_lon |-> MinInt(I32_BITS),
      cell12 |-> Leaf(1, 4, 5)],
     [decimicro_lat |-> -1, decimicro_lon |-> 5, cell12 |-> Leaf(2, 0, 0)]}

\* Where node i of the file can lie: each node in the first leaf cell, in the
\* pentagon's leaf cell or in one other place, so that nodes can share a leaf,
\* part below resolution 3, or lie under the two resolution 3 cells.
NodePlaces(i) ==
    {pl \in Places :
        \/ pl.cell12 = Leaf(1, 0, 0)
        \/ pl.cell12 = Leaf(2, 0, 0)
        \/ i = 2 /\ pl.cell12 = Leaf(1, 10, 3)
        \/ i > 2 /\ pl.cell12 = Leaf(1, 4, 5)}

\* The OSM nodes a file can hold; node 1 carries a tag.
OsmNodes ==
    {n \in [id : 1..MaxNodeId, decimicro_lat : {pl.decimicro_lat : pl \in Places},
            decimicro_lon : {pl.decimicro_lon : pl \in Places},
            cell12 : {pl.cell12 : pl \in Places},
            tags : {<<>>, <<<<(<<97>>), (<<98>>)>>>>}] :
        /\ \E pl \in NodePlaces(n.id) :
              /\ n.decimicro_lat = pl.decimicro_lat /\ n.decimicro_lon = pl.decimicro_lon
              /\ n.cell12 = pl.cell12
        /\ n.tags = (IF n.id = 1 THEN <<<<(<<97>>), (<<98>>)>>>> ELSE <<>>)}

\* The OSM ways a file can hold, in file order.  The last two share an id, and
\* the last one refers to node 7, which no file holds.
OsmWays ==
    <<[id |-> 1, nodes |-> <<1, 2>>, tags |-> <<<<(<<97>>), (<<98>>)>>>>],
      [id |-> 2, nodes |-> <<2, 3>>, tags |-> <<>>],
      [id |-> 2, nodes |-> <<3, 7>>, tags |-> <<<<(<<98>>), (<<97>>)>>>>]>>

\* The texts of an object's tags: key, value, key, ...
osm_tag_texts(tags) == Concat([i \in DOMAIN tags |-> <<tags[i][1], tags[i][2]>>])

\* ingest_into_clickhouse up to its loop: StringTable::fetch and the inserters.
IngestStart ==
    /\ ingest_pc = "idle" /\ dump_pc = "idle"
    /\ string_map' = [string_map |-> [t \in {r.string : r \in strings_rel} |->
                                         (CHOOSE r \in strings_rel : r.string = t).id],
                      new_inserts |-> <<>>]
    /\ node_inserter' = <<>> /\ path_inserter' = <<>>
    /\ ingest_pc' = "running"
    /\ UNCHANGED <<stagingVars, dumpVars, h3>>

\* OsmObj::Node(n) => insert_node(&mut node_inserter, &mut string_map, n)
InsertNode ==
    /\ ingest_pc = "running"
    /\ path_inserter = <<>>
    /\ \E n \in OsmNodes :
          /\ \A i \in DOMAIN node_inserter : node_inserter[i].id < n.id
          /\ LET r == ch_intern_all(string_map, osm_tag_texts(n.tags))
             IN  /\ node_inserter' = Append(node_inserter, ch_node(n, chunks_exact_2(r.ids)))
                 /\ string_map' = r.st
    /\ UNCHANGED <<stagingVars, ingest_pc, path_inserter, dumpVars, h3>>

\* OsmObj::Way(w) => insert_path(&mut path_inserter, &mut string_map, w)
InsertPath ==
    /\ ingest_pc = "running"
    /\ \E k \in DOMAIN OsmWays :
          /\ Len(path_inserter) < k
          /\ \A i \in DOMAIN path_inserter :
                \E j \in 1..(k - 1) : path_inserter[i].src = j
          /\ LET w == OsmWays[k]
                 r == ch_intern_all(string_map, osm_tag_texts(w.tags))
             IN  /\ path_inserter' =
                        Append(path_inserter,
                               [id |-> w.id, nodes |-> w.nodes,
                                tags |-> chunks_exact_2(r.ids), src |-> k])
                 /\ string_map' = r.st
    /\ UNCHANGED <<stagingVars, ingest_pc, node_inserter, dumpVars, h3>>

\* The file is read through: node_inserter.end()
IngestEndNodes ==
    /\ ingest_pc = "running"
    /\ nodes_rel' = nodes_rel \o node_inserter
    /\ node_inserter' = <<>>
    /\ ingest_pc' = "end_paths"
    /\ UNCHANGED <<paths_rel, strings_rel, string_map, path_inserter, dumpVars, h3>>

\* path_inserter.end()
IngestEndPaths ==
    /\ ingest_pc = "end_paths"
    /\ paths_rel' = paths_rel \o [i \in DOMAIN path_inserter |->
                        [id |-> path_inserter[i].id, nodes |-> path_inserter[i].nodes,
                         tags |-> path_inserter[i].tags]]
    /\ path_inserter' = <<>>
    /\ ingest_pc' = "end_strings"
    /\ UNCHANGED <<nodes_rel, strings_rel, string_map, node_inserter, dumpVars, h3>>

\* for r in string_map.new_inserts { string_inserter.write(&r) }; string_inserter.end()
IngestEndStrings ==
    /\ ingest_pc = "end_strings"
    /\ strings_rel' = strings_rel \cup Range(string_map.new_inserts)
    /\ ingest_pc' = "done"
    /\ UNCHANGED <<nodes_rel, paths_rel, string_map, node_inserter, path_inserter,
                   dumpVars, h3>>

\* --------------------------------------------------------- DUMP: actions

\* select distinct cell3 from nodes, collected into the work stack; the query
\* has no ORDER BY.
DumpStart ==
    /\ dump_pc = "idle" /\ ingest_pc = "done"
    /\ \E order \in RowOrders(distinct_cell3(nodes_rel)) : cells_to_process' = order
    /\ dump_pc' = "loop"
    /\ UNCHANGED <<stagingVars, ingestVars, tb, accepted, split_cells, discarded, built, h3>>

TopCell == cells_to_process[Len(cells_to_process)]

\* The mutant of Popped: the pop empties the work set.
Popped_all == <<>>
Popped == SubSeq(cells_to_process, 1, Len(cells_to_process) - 1)

\* The mutant of children_in_order: the first child is left out.
children_in_order_skip_first(c) ==
    LET ds == ChildDigits \ (IF is_pentagon(c) THEN {1} ELSE {})
        nth[k \in 1..Cardinality(ds)] ==
            CHOOSE d \in ds : Cardinality({e \in ds : e < d}) = k - 1
    IN  [k \in 1..(Cardinality(ds) - 1) |-> Append(c, nth[k + 1])]

\* The mutant of children_in_order: a pentagon is given seven children too.
children_in_order_hexagon(c) ==
    LET nth[k \in 1..Cardinality(ChildDigits)] ==
            CHOOSE d \in ChildDigits : Cardinality({e \in ChildDigits : e < d}) = k - 1
    IN  [k \in 1..Cardinality(ChildDigits) |-> Append(c, nth[k])]

\* The mutant of children_in_order: the cell itself comes back in place of
\* its children.
children_in_order_same(c) == <<c>>

\* The children in the order cell.children() yields them.
children_in_order(c) ==
    LET ds == ChildDigits \ (IF is_pentagon(c) THEN {1} ELSE {})
        nth[k \in 1..Cardinality(ds)] ==
            CHOOSE d \in ds : Cardinality({e \in ds : e < d}) = k - 1
    IN  [k \in 1..Cardinality(ds) |-> Append(c, nth[k])]

\* pop; node_count == 0 => continue
DumpDiscard ==
    /\ dump_pc = "loop" /\ cells_to_process # <<>>
    /\ query_nodes_count(nodes_rel, TopCell) = 0
    /\ cells_to_process' = Popped
    /\ discarded' = discarded \cup {TopCell}
    /\ UNCHANGED <<stagingVars, ingestVars, dump_pc, tb, accepted, split_cells, built, h3>>

\* pop; too many nodes => cells_to_process.extend(cell.children(...)); continue
DumpSplit ==
    /\ dump_pc = "loop" /\ cells_to_process # <<>>
    /\ query_nodes_count(nodes_rel, TopCell) # 0
    /\ split_decision(query_nodes_count(nodes_rel, TopCell), TopCell)
    /\ cells_to_process' = Popped \o children_in_order(TopCell)
    /\ split_cells' = split_cells \cup {TopCell}
    /\ UNCHANGED <<stagingVars, ingestVars, dump_pc, tb, accepted, discarded, built, h3>>

\* Whether every tag id of the rows is an id of the strings relation
\* (ch_reverse_table[k] panics otherwise).
ch_tags_resolve(rows, reverse_table) ==
    \A i \in DOMAIN rows : \A j \in DOMAIN rows[i].tags :
        /\ rows[i].tags[j][1] \in DOMAIN reverse_table
        /\ rows[i].tags[j][2] \in DOMAIN reverse_table

DumpAcceptGuard ==
    /\ dump_pc = "loop" /\ cells_to_process # <<>>
    /\ query_nodes_count(nodes_rel, TopCell) # 0
    /\ ~split_decision(query_nodes_count(nodes_rel, TopCell), TopCell)

\* pop; zana_file_from_ch_tile(cell) when no path touches the cell: it returns
\* before anything is written.
DumpAcceptNoPaths ==
    /\ DumpAcceptGuard
    /\ path_rows(nodes_rel, paths_rel, TopCell) = {}
    /\ cells_to_process' = Popped
    /\ accepted' = accepted \cup {TopCell}
    /\ UNCHANGED <<stagingVars, ingestVars, dump_pc, tb, split_cells, discarded, built, h3>>

\* pop; zana_file_from_ch_tile(cell) when a tag id of a path has no row in
\* strings: the index into ch_reverse_table panics.
DumpAcceptPanic ==
    /\ DumpAcceptGuard
    /\ path_rows(nodes_rel, paths_rel, TopCell) # {}
    /\ \E po \in RowOrders(path_rows(nodes_rel, paths_rel, TopCell)) :
          ~ch_tags_resolve([i \in DOMAIN po |-> paths_rel[po[i]]],
                           ch_reverse_table(strings_rel))
    /\ cells_to_process' = Popped
    /\ accepted' = accepted \cup {TopCell}
    /\ dump_pc' = "panic"
    /\ UNCHANGED <<stagingVars, ingestVars, tb, split_cells, discarded, built, h3>>

\* pop; zana_file_from_ch_tile(cell) up to File::create: the two queries, the
\* record, and the file h3/{cell}.zan created or truncated.  What the frame
\* encoder hands to the file while the record is serialized into it is pending.
DumpAccept ==
    /\ DumpAcceptGuard
    /\ path_rows(nodes_rel, paths_rel, TopCell) # {}
    /\ \E po \in RowOrders(path_rows(nodes_rel, paths_rel, TopCell)) :
       \E no \in RowOrdersById(nodes_rel, node_rows(nodes_rel, paths_rel, TopCell)) :
          LET paths == [i \in DOMAIN po |-> paths_rel[po[i]]]
              nodes == [i \in DOMAIN no |-> nodes_rel[no[i]]]
              data == ch_dense_data(nodes, paths, ch_reverse_table(strings_rel))
          IN  /\ ch_tags_resolve(paths, ch_reverse_table(strings_rel))
              /\ \E order \in MapOrders(data.string_table) :
                    tb' = [cell |-> TopCell,
                           pending |-> frame_written(serialize(data, order))]
              /\ built' = [c \in DOMAIN built \cup {TopCell} |->
                              IF c = TopCell THEN data ELSE built[c]]
    /\ h3' = [c \in DOMAIN h3 \cup {TopCell} |-> IF c = TopCell THEN <<>> ELSE h3[c]]
    /\ cells_to_process' = Popped
    /\ accepted' = accepted \cup {TopCell}
    /\ dump_pc' = "writing"
    /\ UNCHANGED <<stagingVars, ingestVars, split_cells, discarded>>

\* serialize_into: the frame encoder writes its header or a full block to the file.
TileWrite ==
    /\ dump_pc = "writing" /\ tb.pending # <<>>
    /\ h3' = [h3 EXCEPT ![tb.cell] = Append(@, Head(tb.pending))]
    /\ tb' = [tb EXCEPT !.pending = Tail(@)]
    /\ UNCHANGED <<stagingVars, ingestVars, dump_pc, cells_to_process, accepted,
                   split_cells, discarded, built>>

\* zana_file_from_ch_tile returns: the encoder is dropped as it is, without
\* finish(), and the file is closed.
TileDrop ==
    /\ dump_pc = "writing" /\ tb.pending = <<>>
    /\ tb' = NoTile
    /\ dump_pc' = "loop"
    /\ UNCHANGED <<stagingVars, ingestVars, cells_to_process, accepted, split_cells,
                   discarded, built, h3>>

\* while let Some(cell) = cells_to_process.pop() ends.
DumpDone ==
    /\ dump_pc = "loop" /\ cells_to_process = <<>>
    /\ dump_pc' = "done"
    /\ UNCHANGED <<stagingVars, ingestVars, cells_to_process, tb, accepted, split_cells,
                   discarded, built, h3>>

\* DUMP is run again over the same staging store: a new process, the tile
\* store as the earlier run left it.
DumpAgain ==
    /\ dump_pc = "done"
    /\ dump_pc' = "idle"
    /\ cells_to_process' = <<>> /\ tb' = NoTile
    /\ accepted' = {} /\ split_cells' = {} /\ discarded' = {}
    /\ UNCHANGED <<stagingVars, ingestVars, built, h3>>

\* ------------------------------------------------------- server: actions

NoResponse == [handler |-> "none", status |-> 0, path |-> <<>>, body |-> <<>>]
ServerIdle == response = NoResponse

\* A name no tile file has.
MissingName == <<0>>

\* GET /list: list_db_files; read_dir gives the names in no particular order.
ListDbFiles ==
    /\ \E names \in RowOrders(DOMAIN h3) :
          response' = [handler |-> "list", status |-> 200, path |-> <<>>, body |-> names]
    /\ UNCHANGED pipelineVars

\* GET /get/{path}: load_file opens h3/{path} and the response carries what the
\* file holds; an error of load_file is answered with status 500.
LoadFile ==
    /\ \E path \in DOMAIN h3 \cup {MissingName} :
          response' = IF path \in DOMAIN h3
                      THEN [handler |-> "get", status |-> 200, path |-> path,
                            body |-> h3[path]]
                      ELSE [handler |-> "get", status |-> 500, path |-> path,
                            body |-> <<>>]
    /\ UNCHANGED pipelineVars

\* Any other URL, /get/{a}/{b} among them: the URL splits on '/' into more
\* than the two parts of the get route, no route matches and serve answers
\* "not found" with status 404.  load_file is not called.
ServeNotFound ==
    /\ \E kind \in {"get_slash", "other"}, path \in DOMAIN h3 \cup {MissingName} :
          response' = [handler |-> kind, status |-> 404, path |-> path, body |-> <<>>]
    /\ UNCHANGED pipelineVars

\* ------------------------------------------------------- client: actions
\* The map on one axis: a cell's bounding box and the viewport are intervals.

MaxView == 4
MaxMailbox == 2
MaxInFlight == 2
Views == 0..MaxView
Widths == {2, 4}
PointerXs == {0, 2}
PointerIds == {1, 2}
ClientCells == Cells3
Helsinki == 1
mercator_scale == 1

NoPan == [x |-> 0, id |-> 0, center |-> 0]
Msg(kind, cells, x, id) == [kind |-> kind, cells |-> cells, x |-> x, id |-> id]
Recompose == Msg("Recompose", {}, 0, 0)

\* cell_to_bounding_box: the interval a cell covers.
cell_to_bounding_box(c) == [left |-> 3 * (c[1] - 1), right |-> 3 * (c[1] - 1) + 2]

\* geo_polygon.intersects(cell): the two shapes share a point (touching counts).
intersects(bbox, c) ==
    /\ bbox.left <= cell_to_bounding_box(c).right
    /\ cell_to_bounding_box(c).left <= bbox.right

\* The mutant of filter_cells_with_mercator_rectangle: the kept cells come out
\* last first.
filter_cells_reversed(cells, bbox) ==
    LET kept == SelectSeq(cells, LAMBDA c : intersects(bbox, c))
    IN  [i \in DOMAIN kept |-> kept[Len(kept) + 1 - i]]

\* filter_cells_with_mercator_rectangle: the cells of the list whose shape
\* intersects bbox, in the order of the list.
filter_cells_with_mercator_rectangle(cells, bbox) ==
    SelectSeq(cells, LAMBDA c : intersects(bbox, c))

\* The listings the client can read: each cell file at most once, in any order.
CellLists ==
    {f \in SeqsOf(ClientCells, 0, Cardinality(ClientCells)) :
        \A i, j \in DOMAIN f : f[i] = f[j] => i = j}

\* The cells and rectangles a caller of the filter passes.
MaxCellList == 3
MaxCoord == 8
FilterCells == {<<1>>, <<2>>, <<3>>}
BBoxes == {b \in [left : 0..MaxCoord, right : 0..MaxCoord] : b.left < b.right}

\* A call of filter_cells_with_mercator_rectangle: cells is borrowed, the
\* result is a new vector.
FilterCall ==
    /\ filter_call.pc = "input"
    /\ filter_call' = [filter_call EXCEPT
            !.pc = "returned",
            !.result = filter_cells_with_mercator_rectangle(
                           filter_call.cells, filter_call.bbox)]

\* compose_tiles' bbox: view_center -+ quarter_screen.
view_bbox(center, width) ==
    [left |-> center - (width \div 2) * mercator_scale,
     right |-> center + (width \div 2) * mercator_scale]

\* compose_tiles: the cells in view that have no entry in drawn_cells.
cells_to_draw(drawn, cells) == {c \in cells : c \notin DOMAIN drawn}

\* The mutant of compose_drawn: the extend with Waiting, without the retain.
compose_drawn_no_retain(drawn, cells) ==
    [c \in DOMAIN drawn \cup cells_to_draw(drawn, cells) |->
        IF c \in DOMAIN drawn THEN drawn[c] ELSE "Waiting"]

\* compose_tiles: drawn_cells after the extend with Waiting and the retain.
compose_drawn(drawn, cells) ==
    [c \in (DOMAIN drawn \cup cells_to_draw(drawn, cells)) \cap cells |->
        IF c \in DOMAIN drawn THEN drawn[c] ELSE "Waiting"]

\* App::create: the first Recompose is sent, an animation frame is requested
\* and load_cell_names_from_indexeddb is spawned.
ClientCreated ==
    /\ downloaded_cells = <<>> /\ view_center = Helsinki
    /\ html_size = 2 /\ body_size = 2
    /\ pan_start = NoPan /\ drawn_cells = [c \in {} |-> "Waiting"]
    /\ animation_frame = TRUE /\ mailbox = <<Recompose>>
    /\ in_flight = <<>> /\ read_pending = TRUE /\ download_pending = FALSE

\* A browser event (resize, pointer, animation frame) is delivered when the
\* messages sent before it have been handled; a spawned task can emit its
\* message while others still wait.
Send(m) == mailbox' = Append(mailbox, m)
CanSend == Len(mailbox) < MaxMailbox
Drained == mailbox = <<>>
Handling(kind) == mailbox # <<>> /\ Head(mailbox).kind = kind

\* The window is resized: the resize listener sends Msg::Resized.
WindowResize ==
    /\ Drained
    /\ \E w \in Widths \ {body_size} : body_size' = w
    /\ Send(Msg("Resized", {}, 0, 0))
    /\ UNCHANGED <<downloaded_cells, view_center, html_size, pan_start, drawn_cells,
                   animation_frame, in_flight, read_pending, download_pending>>

\* load_cell_names_from_indexeddb completes: Msg::ReadFiles(names).
LoadCellNames ==
    /\ CanSend /\ read_pending
    /\ \E f \in CellLists : Send(Msg("ReadFiles", f, 0, 0))
    /\ read_pending' = FALSE
    /\ UNCHANGED <<downloaded_cells, view_center, html_size, body_size, pan_start,
                   drawn_cells, animation_frame, in_flight, download_pending>>

\* download_files completes: Msg::DownloadedFiles.
DownloadComplete ==
    /\ CanSend /\ download_pending
    /\ Send(Msg("DownloadedFiles", {}, 0, 0))
    /\ download_pending' = FALSE
    /\ UNCHANGED <<downloaded_cells, view_center, html_size, body_size, pan_start,
                   drawn_cells, animation_frame, in_flight, read_pending>>

\* onpointerdown, onpointermove, onpointerup.  The pointer stays where the
\* panned view stays inside Views.
PointerEvent ==
    /\ Drained
    /\ \/ \E x \in PointerXs, id \in PointerIds : Send(Msg("PanStart", {}, x, id))
       \/ \E x \in PointerXs, id \in PointerIds :
             /\ (pan_start # NoPan /\ pan_start.id = id) =>
                    pan_start.center - (x - pan_start.x) * mercator_scale \in Views
             /\ Send(Msg("Pan", {}, x, id))
       \/ Send(Msg("PanStop", {}, 0, 0))
    /\ UNCHANGED <<downloaded_cells, view_center, html_size, body_size, pan_start,
                   drawn_cells, animation_frame, in_flight, read_pending,
                   download_pending>>

\* The requested animation frame fires: recompose.emit(()).
FrameFire ==
    /\ Drained /\ animation_frame
    /\ Send(Recompose)
    /\ animation_frame' = FALSE
    /\ UNCHANGED <<downloaded_cells, view_center, html_size, body_size, pan_start,
                   drawn_cells, in_flight, read_pending, download_pending>>

\* A task spawned by compose_tiles reaches callback.emit(results).
TaskComplete ==
    /\ CanSend
    /\ \E i \in DOMAIN in_flight :
          /\ Send(Msg("Rendered", in_flight[i], 0, 0))
          /\ in_flight' = SubSeq(in_flight, 1, i - 1)
                             \o SubSeq(in_flight, i + 1, Len(in_flight))
    /\ UNCHANGED <<downloaded_cells, view_center, html_size, body_size, pan_start,
                   drawn_cells, animation_frame, read_pending, download_pending>>

\* update, Msg::Resized
UpdateResized ==
    /\ Handling("Resized")
    /\ html_size' = body_size
    /\ mailbox' = Append(Tail(mailbox), Recompose)
    /\ UNCHANGED <<downloaded_cells, view_center, body_size, pan_start, drawn_cells,
                   animation_frame, in_flight, read_pending, download_pending>>

\* update, Msg::DownloadedFiles
UpdateDownloadedFiles ==
    /\ Handling("DownloadedFiles")
    /\ read_pending' = TRUE
    /\ mailbox' = Tail(mailbox)
    /\ UNCHANGED <<downloaded_cells, view_center, html_size, body_size, pan_start,
                   drawn_cells, animation_frame, in_flight, download_pending>>

\* update, Msg::ReadFiles(f)
UpdateReadFiles ==
    /\ Handling("ReadFiles")
    /\ downloaded_cells' = Head(mailbox).cells
    /\ download_pending' = (download_pending \/ Len(Head(mailbox).cells) = 0)
    /\ mailbox' = Tail(mailbox)
    /\ UNCHANGED <<view_center, html_size, body_size, pan_start, drawn_cells,
                   animation_frame, in_flight, read_pending>>

\* update, Msg::Recompose: compose_tiles
UpdateRecompose ==
    /\ Handling("Recompose")
    /\ LET cells == Range(filter_cells_with_mercator_rectangle(
                        downloaded_cells, view_bbox(view_center, body_size)))
           todo == cells_to_draw(drawn_cells, cells)
       IN  /\ todo # {} => Len(in_flight) < MaxInFlight
           /\ in_flight' = IF todo # {} THEN Append(in_flight, todo) ELSE in_flight
           /\ drawn_cells' = compose_drawn(drawn_cells, cells)
    /\ mailbox' = Tail(mailbox)
    /\ UNCHANGED <<downloaded_cells, view_center, html_size, body_size, pan_start,
                   animation_frame, read_pending, download_pending>>

\* update, Msg::Rendered(cells)
UpdateRendered ==
    /\ Handling("Rendered")
    /\ drawn_cells' = [c \in DOMAIN drawn_cells \cup Head(mailbox).cells |->
                          IF c \in Head(mailbox).cells THEN "Done" ELSE drawn_cells[c]]
    /\ mailbox' = Append(Tail(mailbox), Recompose)
    /\ UNCHANGED <<downloaded_cells, view_center, html_size, body_size, pan_start,
                   animation_frame, in_flight, read_pending, download_pending>>

\* update, Msg::PanStart(pan_event)
UpdatePanStart ==
    /\ Handling("PanStart")
    /\ pan_start' = [x |-> Head(mailbox).x, id |-> Head(mailbox).id,
                     center |-> view_center]
    /\ mailbox' = Tail(mailbox)
    /\ UNCHANGED <<downloaded_cells, view_center, html_size, body_size, drawn_cells,
                   animation_frame, in_flight, read_pending, download_pending>>

\* update, Msg::Pan(PanEvent { x, y, id })
UpdatePan ==
    /\ Handling("Pan")
    /\ IF pan_start # NoPan /\ pan_start.id = Head(mailbox).id
       THEN /\ view_center' =
                  pan_start.center - (Head(mailbox).x - pan_start.x) * mercator_scale
            /\ animation_frame' = TRUE
       ELSE UNCHANGED <<view_center, animation_frame>>
    /\ mailbox' = Tail(mailbox)
    /\ UNCHANGED <<downloaded_cells, html_size, body_size, pan_start, drawn_cells,
                   in_flight, read_pending, download_pending>>

\* update, Msg::PanStop
UpdatePanStop ==
    /\ Handling("PanStop")
    /\ pan_start' = NoPan
    /\ mailbox' = Tail(mailbox)
    /\ UNCHANGED <<downloaded_cells, view_center, html_size, body_size, drawn_cells,
                   animation_frame, in_flight, read_pending, download_pending>>

\* --------------------------------------------------------- specifications

vars == <<internVars, deltaVars, codecVars, pipelineVars, serverVars, clientVars, drawVars, filterVars>>

InitIntern ==
    InternIdle /\ DeltaIdle /\ CodecIdle /\ PipelineIdle /\ ServerIdle /\ ClientCreated /\ DrawIdle /\ FilterIdle
NextIntern ==
    \/ InternCall /\ UNCHANGED <<deltaVars, codecVars, pipelineVars, serverVars, clientVars, drawVars, filterVars>>
    \/ ChInternCall /\ UNCHANGED <<deltaVars, codecVars, pipelineVars, serverVars, clientVars, drawVars, filterVars>>
SpecIntern == InitIntern /\ [][NextIntern]_vars

\* The tables intern can start from: StringTable::new(map) takes any
\* HashMap<String, u64>, and StringTable::fetch collects whatever rows the
\* strings relation holds into one.  Ids up to one past the number of texts.
StartMaps == UNION {[D -> 1..(Cardinality(Texts) + 1)] : D \in SUBSET Texts}
InitInternFrom ==
    /\ DeltaIdle /\ CodecIdle /\ PipelineIdle /\ ServerIdle /\ ClientCreated /\ DrawIdle /\ FilterIdle
    /\ table \in StartMaps
    /\ \E m \in StartMaps : ch_table = [string_map |-> m, new_inserts |-> <<>>]
    /\ intern_call = NoCall
SpecInternFrom == InitInternFrom /\ [][NextIntern]_vars

InitDelta ==
    /\ InternIdle /\ CodecIdle /\ PipelineIdle /\ ServerIdle /\ ClientCreated /\ DrawIdle /\ FilterIdle
    /\ d_bits \in {I64_BITS, I32_BITS}
    /\ d_col \in SeqsOf(Samples(d_bits), 0, MaxColumnLen)
    /\ d_stored = <<>> /\ d_decoded = <<>> /\ d_pc = "input"
NextDelta ==
    \/ DeltaEncode /\ UNCHANGED <<internVars, codecVars, pipelineVars, serverVars, clientVars, drawVars, filterVars>>
    \/ DeltaDecode /\ UNCHANGED <<internVars, codecVars, pipelineVars, serverVars, clientVars, drawVars, filterVars>>
SpecDelta == InitDelta /\ [][NextDelta]_vars

InitCodec ==
    /\ InternIdle /\ DeltaIdle /\ PipelineIdle /\ ServerIdle /\ ClientCreated /\ DrawIdle /\ FilterIdle
    /\ wz_nodes \in SeqsOf(NodeSamples, 0, MaxNodes)
    /\ wz_paths \in SeqsOf(PathSamples, 0, MaxPaths)
    /\ wz_lookup \in LookupTables
    /\ zan_bytes = <<>> /\ rz_result = NoResult /\ codec_pc = "input"
NextCodec ==
    \/ WriteZana /\ UNCHANGED <<internVars, deltaVars, pipelineVars, serverVars, clientVars, drawVars, filterVars>>
    \/ WriteZanaPanic /\ UNCHANGED <<internVars, deltaVars, pipelineVars, serverVars, clientVars, drawVars, filterVars>>
    \/ ReadZana /\ UNCHANGED <<internVars, deltaVars, pipelineVars, serverVars, clientVars, drawVars, filterVars>>
SpecCodec == InitCodec /\ [][NextCodec]_vars

\* Tiles written by write_zana_data and handed to draw_tile.
drawOtherVars ==
    <<internVars, deltaVars, pipelineVars, serverVars, clientVars, filterVars>>
DanglingRefPath == ZPath(<<1, 7, 2>>, <<<<1, 2>>>>)
InitDraw ==
    /\ InternIdle /\ DeltaIdle /\ PipelineIdle /\ ServerIdle /\ ClientCreated /\ DrawIdle /\ FilterIdle
    /\ wz_nodes \in SeqsOf(NodeSamples, 0, MaxNodes)
    /\ wz_paths \in SeqsOf(PathSamples \cup {DanglingRefPath}, 0, MaxPaths)
    /\ wz_lookup \in LookupTables
    /\ zan_bytes = <<>> /\ rz_result = NoResult /\ codec_pc = "input"
NextDraw ==
    \/ WriteZana /\ UNCHANGED <<drawOtherVars, drawVars>>
    \/ WriteZanaPanic /\ UNCHANGED <<drawOtherVars, drawVars>>
    \/ DrawTile /\ UNCHANGED drawOtherVars
SpecDraw == InitDraw /\ [][NextDraw]_vars

\* The viewport filter on every list of cells and rectangle.
filterOtherVars ==
    <<internVars, deltaVars, codecVars, pipelineVars, serverVars, clientVars, drawVars>>
InitFilter ==
    /\ InternIdle /\ DeltaIdle /\ CodecIdle /\ PipelineIdle /\ ServerIdle
    /\ ClientCreated /\ DrawIdle
    /\ \E cells \in SeqsOf(FilterCells, 0, MaxCellList), bbox \in BBoxes :
        filter_call = [pc |-> "input", cells |-> cells, bbox |-> bbox, result |-> <<>>]
NextFilter == FilterCall /\ UNCHANGED filterOtherVars
SpecFilter == InitFilter /\ [][NextFilter]_vars

otherVars == <<internVars, deltaVars, codecVars, serverVars, clientVars, drawVars, filterVars>>

InitDump ==
    InternIdle /\ DeltaIdle /\ CodecIdle /\ PipelineIdle /\ ServerIdle /\ ClientCreated /\ DrawIdle /\ FilterIdle
NextDump ==
    \/ IngestStart /\ UNCHANGED otherVars
    \/ InsertNode /\ UNCHANGED otherVars
    \/ InsertPath /\ UNCHANGED otherVars
    \/ IngestEndNodes /\ UNCHANGED otherVars
    \/ IngestEndPaths /\ UNCHANGED otherVars
    \/ IngestEndStrings /\ UNCHANGED otherVars
    \/ DumpStart /\ UNCHANGED otherVars
    \/ DumpDiscard /\ UNCHANGED otherVars
    \/ DumpSplit /\ UNCHANGED otherVars
    \/ DumpAcceptNoPaths /\ UNCHANGED otherVars
    \/ DumpAccept /\ UNCHANGED otherVars
    \/ TileWrite /\ UNCHANGED otherVars
    \/ TileDrop /\ UNCHANGED otherVars
    \/ DumpDone /\ UNCHANGED otherVars
SpecDump == InitDump /\ [][NextDump]_vars

\* INGEST ends part-way: one of the unwraps after node_inserter.end() panics
\* (a failed path insert, a failed write or end of the strings insert).  What
\* was committed stays, the process and its string_map are gone.
IngestAbort ==
    /\ ingest_pc \in {"end_paths", "end_strings"}
    /\ ingest_pc' = "done"
    /\ node_inserter' = <<>> /\ path_inserter' = <<>>
    /\ UNCHANGED <<stagingVars, string_map, dumpVars, h3>>

\* INGEST that can end part-way, then DUMP over what it left.
NextAbort ==
    \/ NextDump
    \/ IngestAbort /\ UNCHANGED otherVars
    \/ DumpAcceptPanic /\ UNCHANGED otherVars
SpecAbort == InitDump /\ [][NextAbort]_vars

\* The DUMP as a process that keeps running: an iteration of the loop of
\* dump_all_ch_to_zana_files that can be taken is taken (the loop waits for
\* nothing but its own queries and writes).
DumpLoopStep ==
    /\ \/ DumpDiscard \/ DumpSplit \/ DumpAcceptNoPaths
       \/ TileWrite \/ TileDrop \/ DumpDone
    /\ UNCHANGED otherVars
\* When DumpAccept can be taken, and the step it takes (the only step from
\* the loop into the writing of a tile): its weak fairness, written out.
DumpAcceptEnabled ==
    /\ DumpAcceptGuard
    /\ path_rows(nodes_rel, paths_rel, TopCell) # {}
    /\ \E po \in RowOrders(path_rows(nodes_rel, paths_rel, TopCell)) :
          ch_tags_resolve([i \in DOMAIN po |-> paths_rel[po[i]]],
                          ch_reverse_table(strings_rel))
DumpAcceptStep == dump_pc = "loop" /\ dump_pc' = "writing"
LiveDump ==
    /\ SpecDump
    /\ WF_vars(DumpLoopStep)
    /\ ([]<>(~DumpAcceptEnabled) \/ []<><<DumpAcceptStep>>_vars)

\* A staging store INGEST has committed: MAX_NODES_PER_CELL + 1 nodes under one
\* resolution 3 cell, and the first way or the first two ways of the file.
StagedNodes ==
    [i \in 1..(MAX_NODES_PER_CELL + 1) |->
        ch_node(CHOOSE n \in OsmNodes :
                    /\ n.id = i
                    /\ n.cell12 = (IF i = 1 THEN Leaf(1, 0, 0)
                                   ELSE IF i = 2 THEN Leaf(1, 10, 3) ELSE Leaf(1, 4, 5)),
                IF i = 1 THEN <<<<1, 2>>>> ELSE <<>>)]
StagedPaths ==
    <<[id |-> 1, nodes |-> <<1, 2>>, tags |-> <<<<1, 2>>>>],
      [id |-> 2, nodes |-> <<2, 3>>, tags |-> <<>>]>>
StagedStrings == {[id |-> 1, string |-> <<97>>], [id |-> 2, string |-> <<98>>]}
Staged ==
    /\ nodes_rel = StagedNodes
    /\ paths_rel \in {SubSeq(StagedPaths, 1, 1), StagedPaths}
    /\ strings_rel = StagedStrings
    /\ ingest_pc = "done"
    /\ node_inserter = <<>> /\ path_inserter = <<>>

\* INGEST is run again, on another file, over the staging store and beside the
\* tile store the earlier runs left: a new process.
IngestAgain ==
    /\ ingest_pc = "done" /\ dump_pc = "idle"
    /\ Len(nodes_rel) <= MAX_NODES_PER_CELL
    /\ ingest_pc' = "idle"
    /\ UNCHANGED <<stagingVars, string_map, node_inserter, path_inserter, dumpVars, h3>>

\* Any sequence of INGEST and DUMP runs, from a staging store an INGEST has
\* committed with MAX_NODES_PER_CELL nodes under one resolution 3 cell; the
\* store grows to MAX_NODES_PER_CELL + 1 node rows and MaxPaths path rows.
InitRerun ==
    /\ InternIdle /\ DeltaIdle /\ CodecIdle /\ ServerIdle /\ ClientCreated /\ DrawIdle /\ FilterIdle
    /\ nodes_rel = SubSeq(StagedNodes, 1, MAX_NODES_PER_CELL)
    /\ paths_rel = SubSeq(StagedPaths, 1, 1)
    /\ strings_rel = StagedStrings
    /\ ingest_pc = "done"
    /\ node_inserter = <<>> /\ path_inserter = <<>>
    /\ string_map = [string_map |-> [t \in {<<97>>, <<98>>} |-> IF t = <<97>> THEN 1 ELSE 2],
                     new_inserts |-> <<[id |-> 1, string |-> <<97>>],
                                       [id |-> 2, string |-> <<98>>]>>]
    /\ dump_pc = "idle" /\ cells_to_process = <<>> /\ tb = NoTile
    /\ accepted = {} /\ split_cells = {} /\ discarded = {} /\ built = NoFiles
    /\ h3 = NoFiles
NextRerun ==
    \/ IngestStart /\ UNCHANGED otherVars
    \/ InsertNode /\ Len(nodes_rel) + Len(node_inserter) <= MAX_NODES_PER_CELL /\ UNCHANGED otherVars
    \/ InsertPath /\ Len(paths_rel) + Len(path_inserter) < MaxPaths /\ UNCHANGED otherVars
    \/ IngestEndNodes /\ UNCHANGED otherVars
    \/ IngestEndPaths /\ UNCHANGED otherVars
    \/ IngestEndStrings /\ UNCHANGED otherVars
    \/ DumpStart /\ UNCHANGED otherVars
    \/ DumpDiscard /\ UNCHANGED otherVars
    \/ DumpSplit /\ UNCHANGED otherVars
    \/ DumpAcceptNoPaths /\ UNCHANGED otherVars
    \/ DumpAccept /\ UNCHANGED otherVars
    \/ TileWrite /\ UNCHANGED otherVars
    \/ TileDrop /\ UNCHANGED otherVars
    \/ DumpDone /\ UNCHANGED otherVars
    \/ DumpAgain /\ UNCHANGED otherVars
    \/ IngestAgain /\ UNCHANGED otherVars
SpecRerun == InitRerun /\ [][NextRerun]_vars

pipelineOtherVars == <<internVars, deltaVars, codecVars, clientVars, drawVars, filterVars>>

\* DUMP, run once or more, with the server answering beside it.
InitPublish ==
    /\ InternIdle /\ DeltaIdle /\ CodecIdle /\ ServerIdle /\ ClientCreated /\ DrawIdle /\ FilterIdle
    /\ Staged
    /\ string_map = [string_map |-> [t \in {<<97>>, <<98>>} |-> IF t = <<97>> THEN 1 ELSE 2],
                     new_inserts |-> <<[id |-> 1, string |-> <<97>>],
                                       [id |-> 2, string |-> <<98>>]>>]
    /\ dump_pc = "idle" /\ cells_to_process = <<>> /\ tb = NoTile
    /\ accepted = {} /\ split_cells = {} /\ discarded = {} /\ built = NoFiles
    /\ h3 = NoFiles
NextPublish ==
    \/ DumpStart /\ UNCHANGED otherVars
    \/ DumpDiscard /\ UNCHANGED otherVars
    \/ DumpSplit /\ UNCHANGED otherVars
    \/ DumpAcceptNoPaths /\ UNCHANGED otherVars
    \/ DumpAccept /\ UNCHANGED otherVars
    \/ TileWrite /\ UNCHANGED otherVars
    \/ TileDrop /\ UNCHANGED otherVars
    \/ DumpDone /\ UNCHANGED otherVars
    \/ DumpAgain /\ UNCHANGED otherVars
    \/ ListDbFiles /\ UNCHANGED pipelineOtherVars
    \/ LoadFile /\ UNCHANGED pipelineOtherVars
    \/ ServeNotFound /\ UNCHANGED pipelineOtherVars
SpecPublish == InitPublish /\ [][NextPublish]_vars

clientOtherVars ==
    <<internVars, deltaVars, codecVars, pipelineVars, serverVars, drawVars, filterVars>>

InitClient ==
    InternIdle /\ DeltaIdle /\ CodecIdle /\ PipelineIdle /\ ServerIdle /\ ClientCreated /\ DrawIdle /\ FilterIdle
NextClient ==
    \/ WindowResize /\ UNCHANGED clientOtherVars
    \/ LoadCellNames /\ UNCHANGED clientOtherVars
    \/ DownloadComplete /\ UNCHANGED clientOtherVars
    \/ PointerEvent /\ UNCHANGED clientOtherVars
    \/ FrameFire /\ UNCHANGED clientOtherVars
    \/ TaskComplete /\ UNCHANGED clientOtherVars
    \/ UpdateResized /\ UNCHANGED clientOtherVars
    \/ UpdateDownloadedFiles /\ UNCHANGED clientOtherVars
    \/ UpdateReadFiles /\ UNCHANGED clientOtherVars
    \/ UpdateRecompose /\ UNCHANGED clientOtherVars
    \/ UpdateRendered /\ UNCHANGED clientOtherVars
    \/ UpdatePanStart /\ UNCHANGED clientOtherVars
    \/ UpdatePan /\ UNCHANGED clientOtherVars
    \/ UpdatePanStop /\ UNCHANGED clientOtherVars
SpecClient == InitClient /\ [][NextClient]_vars

\* The client with its scheduling: the component's scheduler handles a queued
\* message, a spawned task runs to its callback, and a requested animation
\* frame fires.  Nothing obliges the user to resize the window or to pan.
UpdateStep ==
    /\ \/ UpdateResized \/ UpdateDownloadedFiles \/ UpdateReadFiles \/ UpdateRecompose
       \/ UpdateRendered \/ UpdatePanStart \/ UpdatePan \/ UpdatePanStop
    /\ UNCHANGED clientOtherVars
LiveClient ==
    /\ SpecClient
    /\ WF_vars(UpdateStep)
    /\ WF_vars(TaskComplete /\ UNCHANGED clientOtherVars)
    /\ WF_vars(LoadCellNames /\ UNCHANGED clientOtherVars)
    /\ WF_vars(DownloadComplete /\ UNCHANGED clientOtherVars)
    /\ WF_vars(FrameFire /\ UNCHANGED clientOtherVars)

\* The two tile writers side by side: write_zana_data on given nodes and paths,
\* and DUMP's zana_file_from_ch_tile over a committed staging store.
InitWriters == InitCodec \/ InitPublish
NextWriters ==
    \/ WriteZana /\ UNCHANGED <<internVars, deltaVars, pipelineVars, serverVars, clientVars, drawVars, filterVars>>
    \/ WriteZanaPanic /\ UNCHANGED <<internVars, deltaVars, pipelineVars, serverVars, clientVars, drawVars, filterVars>>
    \/ ReadZana /\ UNCHANGED <<internVars, deltaVars, pipelineVars, serverVars, clientVars, drawVars, filterVars>>
    \/ DumpStart /\ UNCHANGED otherVars
    \/ DumpDiscard /\ UNCHANGED otherVars
    \/ DumpSplit /\ UNCHANGED otherVars
    \/ DumpAcceptNoPaths /\ UNCHANGED otherVars
    \/ DumpAccept /\ UNCHANGED otherVars
    \/ TileWrite /\ UNCHANGED otherVars
    \/ TileDrop /\ UNCHANGED otherVars
    \/ DumpDone /\ UNCHANGED otherVars
    \/ DumpAgain /\ UNCHANGED otherVars
SpecWriters == InitWriters /\ [][NextWriters]_vars

\* ------------------------------------------------------------------ claims

\* The texts a list of paths uses through a lookup table.
UsedTexts(paths, lookup_table) ==
    UNION {UNION {{lookup_table[paths[i].tags[j][1]], lookup_table[paths[i].tags[j][2]]} :
                     j \in DOMAIN paths[i].tags} : i \in DOMAIN paths}

\* Whether local id k stands in string table st for text t and nothing else.
ResolvesTo(st, k, t) == \A u \in DOMAIN st : (st[u] = k) <=> (u = t)

\* C1: tile round trip.  read_zana_data of the bytes write_zana_data produced
\* returns the nodes first, in the order given, with the same id, decimicro_lat
\* and decimicro_lon, then the paths in the order given with the same node-id
\* lists; every decoded tag pair resolves through the returned string table to
\* the texts the original pair had in the lookup table; and the returned string
\* table holds exactly the texts the paths' tags use.
C1_TileRoundTrip ==
    codec_pc = "read" =>
        LET objs == rz_result.objects
            st == rz_result.string_table
            n == Len(wz_nodes)
        IN  /\ ~rz_result.panic
            /\ Len(objs) = n + Len(wz_paths)
            /\ \A i \in DOMAIN wz_nodes :
                  /\ objs[i].kind = "Node"
                  /\ objs[i].id = wz_nodes[i].id
                  /\ objs[i].coords = wz_nodes[i].coords
            /\ \A j \in DOMAIN wz_paths :
                  /\ objs[n + j].kind = "Path"
                  /\ objs[n + j].nodes = wz_paths[j].nodes
                  /\ Len(objs[n + j].tags) = Len(wz_paths[j].tags)
                  /\ \A t \in DOMAIN wz_paths[j].tags :
                        /\ ResolvesTo(st, objs[n + j].tags[t][1],
                                      wz_lookup[wz_paths[j].tags[t][1]])
                        /\ ResolvesTo(st, objs[n + j].tags[t][2],
                                      wz_lookup[wz_paths[j].tags[t][2]])
            /\ DOMAIN st = UsedTexts(wz_paths, wz_lookup)

\* C1's case: two nodes and two paths, one of them with tags and one whose node
\* ids wrap in the delta column, written and read back.
C1_Witness ==
    /\ codec_pc = "read"
    /\ Len(wz_nodes) = 2 /\ Len(wz_paths) = 2
    /\ wz_nodes[2].id = MaxInt(I64_BITS)
    /\ wz_paths[1] = ZPath(<<2>>, <<<<3, 1>>, <<1, 2>>>>)
    /\ wz_paths[2].nodes = <<MaxInt(I64_BITS), MinInt(I64_BITS), 7>>
    /\ Cardinality(DOMAIN rz_result.string_table) = 3
    /\ Len(rz_result.objects) = 4

\* The id set of a text -> id map.
Ids(map) == {map[t] : t \in DOMAIN map}
Injective(map) == \A t, u \in DOMAIN map : map[t] = map[u] => t = u
DenseFromOne(map) == Ids(map) = 1..Cardinality(DOMAIN map) /\ Injective(map)

\* What one intern call on map, returning id and leaving map2, has to satisfy.
InternContract(map, map2, s, id) ==
    /\ id # 0
    /\ s \in DOMAIN map => id = map[s] /\ map2 = map
    /\ s \notin DOMAIN map =>
          /\ id = Cardinality(DOMAIN map) + 1
          /\ DOMAIN map2 = DOMAIN map \cup {s}
          /\ map2[s] = id
          /\ \A t \in DOMAIN map : map2[t] = map[t]

\* C2: StringTable::intern on a table that starts empty.  The first call with
\* the k-th distinct text returns k and inserts it; a call with a text already
\* present returns its id and leaves the table unchanged; 0 is never returned;
\* the ids are always exactly 1..N for N texts and the map is injective.
C2_InternFromEmpty ==
    /\ [](DenseFromOne(table) /\ DenseFromOne(ch_table.string_map))
    /\ [][/\ intern_call'.impl = "zana" =>
                InternContract(table, table', intern_call'.s, intern_call'.id)
          /\ intern_call'.impl = "baran" =>
                InternContract(ch_table.string_map, ch_table'.string_map,
                               intern_call'.s, intern_call'.id)]_vars

\* C2's case: with three texts interned, a text met before is interned again
\* and gets its old id.
C2_Witness ==
    /\ Cardinality(DOMAIN table) = 3
    /\ intern_call.impl = "zana"
    /\ intern_call.id = 1
    /\ table[intern_call.s] = 1
    /\ Len(ch_table.new_inserts) = 2

\* The dense record inside the bytes that were written.
WrittenDense == deserialize(frame_decode(zan_bytes).data).data

\* The local ids of one path's tags: key, value, key, ...
FlatTags(w) == Concat([i \in DOMAIN w.tags |-> <<w.tags[i][1], w.tags[i][2]>>])

\* Whether group g of the tag stream holds the ids of path w's tags.
GroupOfPath(g, w, st, lookup_table) ==
    /\ Len(g) = 2 * Len(w.tags)
    /\ \A i \in DOMAIN g : ResolvesTo(st, g[i], lookup_table[FlatTags(w)[i]])

ZeroCount(tags) == Cardinality({i \in DOMAIN tags : tags[i] = 0})

\* C8 as claimed: the tags sequence splits on 0 into as many groups as dnodes
\* has entries, group i holds the ids of path i, and the sequence never ends
\* with a 0.
C8_AsClaimed ==
    codec_pc = "written" =>
        LET d == WrittenDense
            groups == split_on_zero(d.paths.tags, <<>>)
        IN  /\ Len(groups) = Len(d.paths.dnodes)
            /\ \A i \in DOMAIN wz_paths :
                  GroupOfPath(groups[i], wz_paths[i], d.string_table, wz_lookup)
            /\ d.paths.tags # <<>> => d.paths.tags[Len(d.paths.tags)] # 0

\* C8, amended: for a non-empty list of paths the tags sequence splits on 0
\* into as many groups as dnodes has entries and group i holds the ids of path
\* i; it holds one 0 less than there are paths, and it ends with a 0 exactly
\* when there are two or more paths and the last one has no tags.  For an empty
\* list of paths the sequence is empty.
C8_TagStreamShape ==
    codec_pc = "written" =>
        LET d == WrittenDense
            tags == d.paths.tags
            groups == split_on_zero(tags, <<>>)
            n == Len(wz_paths)
        IN  /\ Len(d.paths.dnodes) = n
            /\ n = 0 => tags = <<>>
            /\ n > 0 =>
                  /\ Len(groups) = n
                  /\ ZeroCount(tags) = n - 1
                  /\ \A i \in DOMAIN wz_paths :
                        GroupOfPath(groups[i], wz_paths[i], d.string_table, wz_lookup)
                  /\ (tags # <<>> /\ tags[Len(tags)] = 0)
                        <=> (n >= 2 /\ wz_paths[n].tags = <<>>)

\* C8's case: two paths, the last one without tags, so that the stream ends
\* with the separator between them.
C8_Witness ==
    /\ codec_pc = "written"
    /\ Len(wz_paths) = 2
    /\ wz_paths[1].tags # <<>> /\ wz_paths[2].tags = <<>>
    /\ WrittenDense.paths.tags = <<1, 2, 0>>

\* C9: delta round trip.  The prefix sum of the deltas of a column gives the
\* column back, for the i64 and the i32 width alike, and ids [5, 5, 5] are
\* stored as [5, 0, 0].
C9_DeltaRoundTrip ==
    /\ d_pc = "decoded" => d_decoded = d_col
    /\ d_pc \in {"encoded", "decoded"} /\ d_col = <<5, 5, 5>> => d_stored = <<5, 0, 0>>

\* C9's case: the column [5, 5, 5] went through the coder.
C9_Witness ==
    /\ d_pc = "decoded"
    /\ d_col = <<5, 5, 5>> /\ d_stored = <<5, 0, 0>> /\ d_decoded = <<5, 5, 5>>

\* The staged node rows counted in cell c.
CountedIn(c) ==
    {i \in DOMAIN nodes_rel : is_ancestor_or_self(c, nodes_rel[i].cell12)}

\* C3: partitioner covering.  When the traversal has finished, every staged
\* node is counted in exactly one cell handed to TileBuilder, no accepted cell
\* is an ancestor of another, and every accepted cell has at most
\* MAX_NODES_PER_CELL nodes or a resolution of at least MIN_RESOLUTION.
C3_PartitionerCovering ==
    dump_pc = "done" =>
        /\ \A i \in DOMAIN nodes_rel :
              Cardinality({c \in accepted : i \in rows_inside(nodes_rel, c)}) = 1
        /\ \A a, b \in accepted : a # b => ~is_ancestor_or_self(a, b)
        /\ \A c \in accepted :
              \/ Cardinality(CountedIn(c)) <= MAX_NODES_PER_CELL
              \/ resolution(c) >= MIN_RESOLUTION

\* C3's case: a traversal that split cells, dropped empty ones and ended with
\* two accepted cells below a resolution 3 cell, every staged node in one of them.
C3_Witness ==
    /\ dump_pc = "done"
    /\ split_cells # {} /\ discarded # {}
    /\ \E a, b \in accepted :
          /\ a # b /\ resolution(a) > Three /\ resolution(b) > Three
          /\ CountedIn(a) # {} /\ CountedIn(b) # {}

\* The node ids and the node references of a dense record, decoded.
TileNodeIds(data) == Range(original(data.nodes.dids, I64_BITS))
TileRefs(data) ==
    UNION {Range(original(data.paths.dnodes[i], I64_BITS)) : i \in DOMAIN data.paths.dnodes}
StagedIds == {nodes_rel[i].id : i \in DOMAIN nodes_rel}

\* The record of the tile zana_file_from_ch_tile is writing.
TileInHand == built[tb.cell]

\* C4 as claimed: every node reference of every path of a tile built for a cell
\* is the id of a node in the tile's node array, whatever staging holds.
C4_AsClaimed ==
    dump_pc = "writing" => TileRefs(TileInHand) \subseteq TileNodeIds(TileInHand)

\* C4, amended: every node reference of every path of a tile built for a cell
\* that has a row in the nodes relation is the id of a node in the tile's node
\* array, the nodes outside the cell included; a reference with no row in the
\* nodes relation stays in the path and resolves to nothing.
C4_RefsWithRowsResolve ==
    dump_pc = "writing" =>
        /\ TileRefs(TileInHand) \cap StagedIds \subseteq TileNodeIds(TileInHand)
        /\ TileNodeIds(TileInHand) \subseteq StagedIds
        /\ TileRefs(TileInHand) \ StagedIds = TileRefs(TileInHand) \ TileNodeIds(TileInHand)

\* C4's case: a tile whose paths refer to a node inside the cell, a node staged
\* outside the cell and a node that is not staged.
C4_Witness ==
    /\ dump_pc = "writing"
    /\ \E i \in DOMAIN nodes_rel :
          /\ nodes_rel[i].id \in TileRefs(TileInHand)
          /\ ~is_ancestor_or_self(tb.cell, nodes_rel[i].cell12)
          /\ nodes_rel[i].id \in TileNodeIds(TileInHand)
    /\ \E i \in DOMAIN nodes_rel :
          /\ nodes_rel[i].id \in TileRefs(TileInHand)
          /\ is_ancestor_or_self(tb.cell, nodes_rel[i].cell12)
    /\ TileRefs(TileInHand) \ StagedIds # {}

\* The files zana_file_from_ch_tile has finished with.
EmittedFiles == {c \in DOMAIN h3 : ~(dump_pc = "writing" /\ tb.cell = c)}

\* C5: every tile file zana_file_from_ch_tile emitted is a finished LZ4 frame
\* that read_zana_data reads back as the nodes and paths assembled for the cell.
C5_EmittedTileComplete ==
    \A c \in EmittedFiles :
        /\ frame_decode(h3[c]).ok /\ frame_decode(h3[c]).finished
        /\ ~read_zana_data(h3[c]).panic
        /\ read_zana_data(h3[c]).objects = undensify(built[c])

\* C10: the split rule.  A popped cell with a node count of 0 is dropped with
\* no tile and no children; any other popped cell is replaced by its children
\* exactly when its count is above MAX_NODES_PER_CELL and its resolution is
\* below MIN_RESOLUTION, and is handed to TileBuilder otherwise.
C10_SplitRule ==
    [][(dump_pc = "loop" /\ cells_to_process' # cells_to_process) =>
          LET c == TopCell
              n == Cardinality(CountedIn(c))
              is_split == Len(cells_to_process') >= Len(cells_to_process)
          IN  /\ n = 0 =>
                    /\ cells_to_process' = Popped
                    /\ accepted' = accepted /\ h3' = h3 /\ dump_pc' = "loop"
              /\ n # 0 =>
                    /\ is_split <=> (n > MAX_NODES_PER_CELL /\ resolution(c) < MIN_RESOLUTION)
                    /\ is_split => accepted' = accepted /\ h3' = h3
                    /\ ~is_split => cells_to_process' = Popped /\ c \in accepted'
              /\ n = MAX_NODES_PER_CELL => ~is_split /\ c \in accepted'
              /\ resolution(c) = MIN_RESOLUTION => ~is_split]_vars

\* C10's case: after splits, a cell below MIN_RESOLUTION with exactly
\* MAX_NODES_PER_CELL nodes was handed to TileBuilder and empty cells were dropped.
C10_Witness ==
    /\ split_cells # {} /\ discarded # {}
    /\ \E c \in accepted :
          /\ Cardinality(CountedIn(c)) = MAX_NODES_PER_CELL
          /\ resolution(c) < MIN_RESOLUTION /\ resolution(c) > Three

\* A file read_zana_data reads as a whole tile.
CompleteTile(bytes) ==
    /\ frame_decode(bytes).ok /\ frame_decode(bytes).finished
    /\ ~read_zana_data(bytes).panic

\* C6: a tile is published atomically and never changed afterwards.  No file
\* of the tile store is ever empty or part of a tile, /get never answers with
\* such a body, and a file that exists keeps its bytes, also when DUMP runs again.
C6_AtomicImmutable ==
    /\ [](\A c \in DOMAIN h3 : CompleteTile(h3[c]))
    /\ []((response.handler = "get" /\ response.status = 200) =>
              CompleteTile(response.body))
    /\ [][\A c \in DOMAIN h3 : c \in DOMAIN h3' /\ h3'[c] = h3[c]]_vars

\* The tasks in flight that hold cell c.
TasksOf(c) == {i \in DOMAIN in_flight : c \in in_flight[i]}

\* C7: the client keeps at most one render task per cell in flight: no task
\* for a cell is dispatched while an earlier task for that cell has not completed.
C7_OneTaskPerCell ==
    \A c \in ClientCells : Cardinality(TasksOf(c)) <= 1

\* The node references of path i of a dense record, decoded.
PathRefs(data, i) == Range(original(data.paths.dnodes[i], I64_BITS))

\* C11: every path stored in the tile built for a cell has at least one node
\* reference whose staged node lies in the cell, also when several path rows
\* share one id.
C11_PathsTouchCell ==
    dump_pc = "writing" =>
        \A i \in DOMAIN TileInHand.paths.dnodes :
            PathRefs(TileInHand, i) \cap nodes_inside(nodes_rel, tb.cell) # {}

\* The non-zero values of a tags sequence.
TagIds(tags) == {tags[i] : i \in DOMAIN tags} \ {0}

\* The local string table of a dense record against its tags sequence.
LocalTableShape(data) ==
    /\ 0 \notin Ids(data.string_table)
    /\ \A i \in DOMAIN data.paths.tags :
          \/ data.paths.tags[i] = 0
          \/ data.paths.tags[i] \in 1..Cardinality(DOMAIN data.string_table)
    /\ Ids(data.string_table) = TagIds(data.paths.tags)

\* C12: in a tile written by write_zana_data or by zana_file_from_ch_tile, 0 is
\* never an id of the string table, every value of tags is 0 or an id between
\* 1 and the table's size, and the ids of the table are exactly the non-zero
\* values of tags.
C12_LocalStringTable ==
    /\ codec_pc = "written" => LocalTableShape(WrittenDense)
    /\ dump_pc = "writing" => LocalTableShape(TileInHand)

\* C12's case: a tile in DUMP's hand whose tags hold two ids and a separator.
C12_Witness ==
    /\ dump_pc = "writing"
    /\ Cardinality(DOMAIN TileInHand.string_table) = 2
    /\ \E i \in DOMAIN TileInHand.paths.tags : TileInHand.paths.tags[i] = 0

\* C13: encoder determinism.  The bytes write_zana_data produced are the bytes
\* of every encoding of the same nodes, paths and lookup table; and when DUMP
\* builds a cell it has built before over the same staging contents, it
\* assembles the same record and hands the same bytes to the file.
C13_Deterministic ==
    /\ [](codec_pc = "written" =>
             \A order \in MapOrders(WrittenDense.string_table) :
                 zan_bytes = write_zana_data(wz_nodes, wz_paths, wz_lookup, order))
    /\ [][(dump_pc = "loop" /\ dump_pc' = "writing" /\ tb'.cell \in DOMAIN built) =>
             /\ built'[tb'.cell] = built[tb'.cell]
             /\ \A order \in MapOrders(built[tb'.cell].string_table) :
                    tb'.pending = frame_written(serialize(built[tb'.cell], order))]_vars

\* No path row refers to a node staged in cell c.
NoTouchingPath(c) ==
    \A j \in DOMAIN paths_rel :
        \A r \in Range(paths_rel[j].nodes) :
            \A i \in DOMAIN nodes_rel :
                nodes_rel[i].id = r => ~is_ancestor_or_self(c, nodes_rel[i].cell12)

\* C14: no tile is written for a cell no path touches.  When a cell with at
\* least one node and no path referring to a node of the cell is handed to
\* zana_file_from_ch_tile, no file is created or modified, and no such cell
\* ever has a file.
C14_NoTileWithoutPaths ==
    /\ [](\A c \in accepted : NoTouchingPath(c) => c \notin DOMAIN h3)
    /\ [][(dump_pc = "loop" /\ cells_to_process # <<>> /\ NoTouchingPath(TopCell)
              /\ TopCell \in accepted') =>
             (h3' = h3 /\ dump_pc' = "loop" /\ tb' = tb)]_vars

\* C14's case: an accepted cell with a node and no touching path has no file,
\* beside a cell that got one.
C14_Witness ==
    /\ h3 # NoFiles
    /\ \E c \in accepted :
          CountedIn(c) # {} /\ NoTouchingPath(c) /\ c \notin DOMAIN h3

\* C15: the statuses of GET /get/{file}.  A file part with a '/' is answered
\* with 400, a tile that does not exist with 404, and an existing tile with 200
\* and the bytes of its file.
C15_GetStatus ==
    [][response' # response =>
          /\ response'.handler = "get_slash" => response'.status = 400
          /\ (response'.handler = "get" /\ response'.path \notin DOMAIN h3) =>
                response'.status = 404
          /\ (response'.handler = "get" /\ response'.path \in DOMAIN h3) =>
                (response'.status = 200 /\ response'.body = h3[response'.path])]_vars

\* The styled Path objects of a decoded tile, in object order.
StyledPaths(r) ==
    SelectSeq(r.objects,
              LAMBDA o : o.kind = "Path" /\ style_of(o, r.string_table) # "none")

\* The references of a path that name a node of the tile, in path order.
Resolvable(r, o) ==
    SelectSeq(o.nodes,
              LAMBDA n : \E i \in DOMAIN r.objects :
                  r.objects[i].kind = "Node" /\ r.objects[i].id = n)

\* The polylines the tile should give: one per styled path with at least two
\* resolvable references, through the coordinates of those references.
ExpectedStrokes(r) ==
    LET drawable == SelectSeq(StyledPaths(r), LAMBDA o : Len(Resolvable(r, o)) >= 2)
    IN  [i \in DOMAIN drawable |->
            [k \in DOMAIN Resolvable(r, drawable[i]) |->
                node_id_hashmap(r.objects)[Resolvable(r, drawable[i])[k]]]]

\* C16: draw_tile on a decodable tile never aborts, whatever references its
\* styled paths leave unresolved: it strokes exactly the styled paths with two
\* or more resolvable nodes, each through those nodes in path order, and skips
\* those with one or none.
C16_DrawPathNeverFails ==
    (pixmap.state # "none" /\ ~read_zana_data(pixmap.data).panic) =>
        /\ pixmap.state = "done"
        /\ pixmap.strokes = ExpectedStrokes(read_zana_data(pixmap.data))

\* Bytes that are not a whole tile: the frame does not decode, or its content
\* is not a whole record.
Undecodable(data) ==
    \/ ~frame_decode(data).ok
    \/ ~deserialize(frame_decode(data).data).ok

\* C17: a tile that cannot be decoded (truncated or mis-framed bytes) does not
\* abort the rasterizer: draw_tile ends normally, having drawn nothing.
C17_UndecodableTileIsEmpty ==
    (pixmap.state # "none" /\ Undecodable(pixmap.data)) =>
        /\ pixmap.state = "done"
        /\ pixmap.strokes = <<>>

\* The cell's shape and the rectangle have a point in common.
SharePoint(bbox, c) ==
    \E x \in bbox.left..bbox.right :
        cell_to_bounding_box(c).left <= x /\ x <= cell_to_bounding_box(c).right

\* How often a cell occurs in a list.
Occurrences(list, c) == Cardinality({i \in DOMAIN list : list[i] = c})

\* r is taken from list without reordering: its elements are those at
\* increasing positions of list.
IsSubsequence(r, list) ==
    \E pos \in [DOMAIN r -> DOMAIN list] :
        /\ \A i \in DOMAIN r : r[i] = list[pos[i]]
        /\ \A i, j \in DOMAIN r : i < j => pos[i] < pos[j]

\* C18: the viewport filter returns exactly the cells of its input that
\* intersect the rectangle, in input order (a subsequence of the input with
\* every intersecting cell kept and every other cell dropped), and leaves the
\* input list as it was.
C18_ViewportFilter ==
    /\ [](filter_call.pc = "returned" =>
            /\ IsSubsequence(filter_call.result, filter_call.cells)
            /\ \A c \in FilterCells :
                Occurrences(filter_call.result, c) =
                    IF SharePoint(filter_call.bbox, c)
                    THEN Occurrences(filter_call.cells, c) ELSE 0)
    /\ [][filter_call'.cells = filter_call.cells]_vars

\* A call with a cell inside the rectangle, one straddling its edge and one
\* outside, the straddling one listed first: both are kept, in that order.
C18_Witness ==
    /\ filter_call.pc = "returned"
    /\ filter_call.bbox = [left |-> 0, right |-> 4]
    /\ filter_call.cells = <<<<2>>, <<3>>, <<1>>>>
    /\ filter_call.result = <<<<2>>, <<1>>>>

\* C19: a render result for a cell that has no entry in drawn_cells when the
\* Rendered message is handled (its Waiting entry was dropped meanwhile) is
\* discarded: the handler gives no cell an entry that had none.
C19_RenderedDiscarded ==
    [][(Handling("Rendered") /\ mailbox' = Append(Tail(mailbox), Recompose)) =>
            DOMAIN drawn_cells' \subseteq DOMAIN drawn_cells]_vars

\* The downloaded cells that have a point in common with the viewport.
InViewport ==
    {c \in Range(downloaded_cells) : SharePoint(view_bbox(view_center, body_size), c)}

\* C20: after every compose_tiles the keys of drawn_cells, Waiting or Done,
\* are downloaded cells that intersect the viewport of that compose.
C20_CappedToViewport ==
    [][(Handling("Recompose") /\ mailbox' = Tail(mailbox)) =>
            DOMAIN drawn_cells' \subseteq InViewport]_vars

\* A compose has dropped the entry of a cell that drifted outside (its render
\* task is still in flight) and kept the entry of a cell in view.
C20_Witness ==
    /\ Drained
    /\ DOMAIN drawn_cells # {}
    /\ DOMAIN drawn_cells \subseteq InViewport
    /\ \E c \in Range(downloaded_cells) \ InViewport :
        TasksOf(c) # {} /\ c \notin DOMAIN drawn_cells

\* C21: a split puts all the children of the popped cell on the work set
\* (seven cells of the next resolution, six below a pentagon), keeps the rest
\* of the work set and writes no file; when DUMP has finished a split cell has
\* no tile and each of its children has been popped and counted.
C21_SplitReplacesByChildren ==
    /\ [](dump_pc = "done" =>
            \A c \in split_cells :
                /\ c \notin DOMAIN h3
                /\ \A k \in children(c) : k \in accepted \cup split_cells \cup discarded)
    /\ [][(dump_pc = "loop" /\ split_cells' # split_cells) =>
            LET c == TopCell
                added == SubSeq(cells_to_process', Len(cells_to_process),
                                Len(cells_to_process'))
            IN  /\ SubSeq(cells_to_process', 1, Len(cells_to_process) - 1) = Popped
                /\ Len(added) = (IF is_pentagon(c) THEN 6 ELSE 7)
                /\ Cardinality(Range(added)) = Len(added)
                /\ \A i \in DOMAIN added :
                      /\ resolution(added[i]) = resolution(c) + 1
                      /\ parent(added[i], resolution(c)) = c
                /\ h3' = h3 /\ accepted' = accepted]_vars

\* C21's case: a finished DUMP that split a pentagon into its six children,
\* dropped the empty ones and wrote a tile for a cell below it.
C21_Witness ==
    /\ dump_pc = "done"
    /\ \E c \in split_cells :
          /\ is_pentagon(c) /\ Cardinality(children(c)) = 6
          /\ children(c) \cap discarded # {}
          /\ \E t \in DOMAIN h3 : t # c /\ is_ancestor_or_self(c, t)

\* Whether the partitioner's rule splits cell c, from the staged rows alone.
TooDense(c) ==
    Cardinality(CountedIn(c)) > MAX_NODES_PER_CELL /\ resolution(c) < MIN_RESOLUTION

\* The cell the staged node row i ends in: the coarsest cell over its
\* resolution 12 cell that the rule does not split.
FinalCellOf(i) ==
    LET leaf == nodes_rel[i].cell12
        k == CHOOSE n \in 1..Len(leaf) :
                /\ ~TooDense(SubSeq(leaf, 1, n))
                /\ \A m \in 1..(n - 1) : TooDense(SubSeq(leaf, 1, m))
    IN  SubSeq(leaf, 1, k)

\* The cells and the tile files the staging contents determine.
ExpectedCells == {FinalCellOf(i) : i \in DOMAIN nodes_rel}
ExpectedFiles == {c \in ExpectedCells : ~NoTouchingPath(c)}

C23_Cell3IsPartitioningOnly ==
    /\ \A i \in DOMAIN nodes_rel :
          nodes_rel[i].cell3 = SubSeq(nodes_rel[i].cell12, 1, 1)
    /\ \A k \in DOMAIN cells_to_process :
          query_nodes_count(nodes_rel, cells_to_process[k])
              = Cardinality(CountedIn(cells_to_process[k]))

\* C23's case: the traversal has come down to a resolution 12 cell that holds
\* nodes, with empty siblings of it still on the work set.
C23_Witness ==
    /\ dump_pc = "loop" /\ Len(cells_to_process) > 1
    /\ resolution(cells_to_process[1]) = MIN_RESOLUTION
    /\ Cardinality(CountedIn(cells_to_process[1])) > MAX_NODES_PER_CELL
    /\ CountedIn(TopCell) = {}

\* The difference of the i-th value of the column and its predecessor (0 for
\* the first), as an integer.
TrueDelta(i) == d_col[i] - (IF i = 1 THEN 0 ELSE d_col[i - 1])

\* Every value of the column lies between lo and hi.
ColumnWithin(lo, hi) == \A i \in DOMAIN d_col : lo <= d_col[i] /\ d_col[i] <= hi

\* Every stored delta is the difference itself: nothing wrapped.
NothingWrapped == \A i \in DOMAIN d_col : d_stored[i] = TrueDelta(i)

\* C24 as claimed: in an id column, and in an i32 column of decimicro
\* latitudes or longitudes, every difference fits the column's width.
C24_AsClaimed ==
    d_pc # "input" =>
        /\ d_bits = I64_BITS => NothingWrapped
        /\ (d_bits = I32_BITS /\ ColumnWithin(-MaxDecimicroLon, MaxDecimicroLon))
              => NothingWrapped

\* C24: every stored delta is the difference of two consecutive values taken
\* modulo the column's width.  It is the difference itself in a column of
\* decimicro latitudes and in a column of ids that are not negative; the
\* difference of two longitudes, or of two ids of opposite sign, can lie
\* outside the width and is then stored wrapped.
C24_DeltasWrap ==
    d_pc # "input" =>
        /\ \A i \in DOMAIN d_col : d_stored[i] = Wrap(TrueDelta(i), d_bits)
        /\ (d_bits = I32_BITS /\ ColumnWithin(-MaxDecimicroLat, MaxDecimicroLat))
              => NothingWrapped
        /\ ColumnWithin(0, MaxInt(d_bits)) => NothingWrapped

\* C24's case: a longitude column from the western to the eastern bound, whose
\* difference does not fit and is stored wrapped.
C24_Witness ==
    /\ d_pc = "encoded" /\ d_bits = I32_BITS
    /\ d_col = <<-MaxDecimicroLon, MaxDecimicroLon>>
    /\ TrueDelta(2) > MaxInt(I32_BITS)
    /\ d_stored[2] = TrueDelta(2) - Pow2(I32_BITS)

\* C25: the dids field of the paths record is empty in every tile, whether
\* write_zana_data or the DUMP wrote it.
C25_PathDidsEmpty ==
    /\ codec_pc = "written" => WrittenDense.paths.dids = <<>>
    /\ dump_pc = "writing" => TileInHand.paths.dids = <<>>

\* C26: the DUMP traversal terminates: once the loop has started, the work set
\* becomes empty and the loop ends.
C26_DumpTerminates ==
    (dump_pc = "loop") ~> (dump_pc = "done" /\ cells_to_process = <<>>)

\* C26's case: a traversal that has ended after splitting all the way down to
\* a resolution 12 cell, which still holds too many nodes and was not split.
C26_Witness ==
    /\ dump_pc = "done" /\ cells_to_process = <<>>
    /\ \E c \in accepted :
          /\ resolution(c) = MIN_RESOLUTION
          /\ Cardinality(CountedIn(c)) > MAX_NODES_PER_CELL
          /\ \A r \in Three..(MIN_RESOLUTION - 1) : parent(c, r) \in split_cells

\* C27: client liveness.  Once the user leaves the window alone, a downloaded
\* cell that stays in the viewport eventually has a Done entry in drawn_cells.
UserStep == (WindowResize \/ PointerEvent) /\ UNCHANGED clientOtherVars
C27_ClientLiveness ==
    \A c \in ClientCells :
        (<>[][~UserStep]_vars /\ <>[](c \in InViewport)) =>
            <>(c \in DOMAIN drawn_cells /\ drawn_cells[c] = "Done")

\* C28: staged tag ids always resolve.  Whenever staging can be observed, every
\* key id and value id in the tags of a node row or a path row has a row in
\* strings, and the DUMP's lookup of a path's tag ids never misses.
RowTagIds(rows) ==
    UNION {UNION {{rows[i].tags[j][1], rows[i].tags[j][2]} : j \in DOMAIN rows[i].tags} :
              i \in DOMAIN rows}
StagedTagIds == RowTagIds(nodes_rel) \cup RowTagIds(paths_rel)
C28_StagedTagIdsResolve ==
    /\ StagedTagIds \subseteq {r.id : r \in strings_rel}
    /\ dump_pc # "panic"

\* C29: after any sequence of INGEST and DUMP runs, no two tiles of h3/ are
\* ancestor and descendant, and every tile of h3/ belongs to a cell the most
\* recent DUMP accepted.
IsAncestor(a, d) == Len(a) < Len(d) /\ SubSeq(d, 1, Len(a)) = a
C29_NoStaleTiles ==
    dump_pc = "done" =>
        /\ \A a, d \in DOMAIN h3 : ~IsAncestor(a, d)
        /\ DOMAIN h3 \subseteq accepted

\* C30: intern keeps the text -> id map injective whatever table it starts
\* from: a call on an injective map leaves an injective map, so a newly
\* interned text never gets an id the table gives to another text.
C30_InternKeepsInjective ==
    [][/\ (intern_call'.impl = "zana" /\ Injective(table)) => Injective(table')
       /\ (intern_call'.impl = "baran" /\ Injective(ch_table.string_map)) =>
              Injective(ch_table'.string_map)]_vars

=============================================================================
